---- MODULE Spec2Model ----
(***************************************************************************)
(* Quantum-Network-Simulator: the PQC-secured SCTP tunnels.                *)
(*                                                                         *)
(*   Spec        src/NetsquidTunnel/netsquid_tunnel_PQC_tunnel.py          *)
(*               (SCTPEventHandler: handshake event, poll events, channel  *)
(*               deliveries)                                               *)
(*   SpecTesting src/NetsquidTunnel/netsquid_tunnel_PQC_testing.py         *)
(*               (main's handshake, handle_packet_processing loop)         *)
(*   SpecCipher  PQCManager.protect_data of both files as a pure function  *)
(*               of the manager, the data and the direction label          *)
(*   SpecNetsquid src/NetsquidTunnel/netsquid_tunnel.py                    *)
(*               (poll events, QCUNode and QDUNode processing, channel     *)
(*               deliveries and forwarding events)                         *)
(*   SpecSequence src/SequenceTunnel/sequence_tunnel.py                    *)
(*               (the SCTP handler thread and the simulation thread, both  *)
(*               running the timeline)                                     *)
(***************************************************************************)
EXTENDS Integers, Sequences, FiniteSets, TLC

VARIABLES
    \* ---- netsquid_tunnel_PQC_tunnel.py ----
    tunnel_ready,        \* SCTPEventHandler.tunnel_ready
    qcu_pqc,             \* ClassicalConnection.qcu_pqc (is_server = True)
    qdu_pqc,             \* ClassicalConnection.qdu_pqc (is_server = False)
    cu_client_socket,    \* global cu_client_socket
    du_conn,             \* global du_conn
    events,              \* pending simulation events, in firing order
    now,                 \* simulation time, in thousandths of a time unit
    byteorder,           \* byte order of the platform ('=' in struct.pack)
    nread,               \* number of non-empty packets read so far
    blocked,             \* ids of the packets blocked by the readiness gate
    ever,                \* data-plane effects that have happened so far
    ready_writes,        \* number of assignments tunnel_ready = True
    accept_queue,        \* connections waiting to be accepted on server_socket
    trace,               \* what the step that ran last did
    \* ---- netsquid_tunnel_PQC_testing.py ----
    t_pc,                \* position of main
    t_qcu,               \* qcu_protocol.pqc (is_server = False)
    t_qdu,               \* qdu_protocol.pqc (is_server = True)
    t_iter,              \* iterations of the while True loop so far
    t_trace,             \* what the last loop iteration did
    t_closed,            \* sockets whose peer has closed (a read returned b"")
    \* ---- protect_data as a pure function ----
    c_pc,                \* "start", "once", "twice"
    c_mgr,               \* the two managers, c_mgr[1] and c_mgr[2]
    c_data,              \* the input byte sequence
    c_call1,             \* first call: who, implementation, direction, result
    c_call2,             \* second call, on the result of the first
    c_call3,             \* third call, on any input
    \* ---- netsquid_tunnel.py ----
    n_events,            \* pending simulation events, in firing order
    n_now,               \* simulation time, in ns
    n_qcu,               \* QCUNode: pending_cu_data, pending_data
    n_qdu,               \* QDUNode: pending_du_data, pending_data
    n_polls,             \* number of poll events that have fired
    n_packets,           \* the packets read so far, n_packets[id]
    n_log,               \* what the event handlers transmitted, in order
    \* ---- sequence_tunnel.py ----
    s_pc,                \* position of the threads H and S
    s_cur,               \* the event each thread is delivering
    s_heap,              \* timeline.events
    s_time,              \* timeline.time
    s_node,              \* the nodes QCU and QDU
    s_packets,           \* the packets read so far, s_packets[id]
    s_sends,             \* the socket sends made so far, in order
    s_raced,             \* an event was scheduled while S was in timeline.run
    \* ---- sequence_tunnel_oran.py ----
    o_pc,                \* position of the threads H and S
    o_heap,              \* timeline.events
    o_time,              \* timeline.time
    o_cur,               \* the event the simulation thread is processing
    o_node,              \* the counters of the nodes QCU and QDU
    o_packets,           \* the packets read so far, o_packets[id]
    o_fired,             \* the events popped so far, in order
    o_sends,             \* the socket sends made so far, in order
    \* ---- sctp_tunnel.py ----
    k_pc,                \* position of the threads "DU" and "CU"
    k_reads,             \* the packets each thread has read, in order
    k_sends,             \* the sends each thread has made, in order
    k_failed,            \* the endpoints on which a recv or a send raised
    k_empty,             \* number of empty reads of each thread
    k_joined,            \* main has joined the two threads
    k_log,               \* the steps each thread has made on a packet, in order
    \* ---- mytunnel2.py, mytunnel2_testtunnel.py ----
    q_program,           \* which of the two files runs
    q_pc,                \* position of the threads handle_du and handle_cu
    q_net,               \* the messages in flight between the two hosts
    q_reads,             \* the payloads read so far, q_reads[id]
    q_writes,            \* the sendall calls made so far, in order
    \* ---- setup_keypair and establish_shared_secret as functions ----
    e_mgr,               \* the manager
    e_call,              \* the last call: method, arguments, result
    e_calls              \* number of calls made

tunnelVars == <<tunnel_ready, qcu_pqc, qdu_pqc, cu_client_socket, du_conn,
                events, now, byteorder, nread, blocked, ever, ready_writes,
                accept_queue,
                trace>>
testingVars == <<t_pc, t_qcu, t_qdu, t_iter, t_trace, t_closed>>
cipherVars == <<c_pc, c_mgr, c_data, c_call1, c_call2, c_call3>>
netsquidVars == <<n_events, n_now, n_qcu, n_qdu, n_polls, n_packets, n_log>>
sequenceVars == <<s_pc, s_cur, s_heap, s_time, s_node, s_packets, s_sends,
                  s_raced>>
oranVars == <<o_pc, o_heap, o_time, o_cur, o_node, o_packets, o_fired,
              o_sends>>
sctpVars == <<k_pc, k_reads, k_sends, k_failed, k_empty, k_joined, k_log>>
qunetVars == <<q_program, q_pc, q_net, q_reads, q_writes>>
kemVars == <<e_mgr, e_call, e_calls>>
vars == <<tunnelVars, testingVars, cipherVars, netsquidVars, sequenceVars,
          oranVars, sctpVars, qunetVars, kemVars>>

\* the variables of the other programs
notTunnelVars == <<testingVars, cipherVars, netsquidVars, sequenceVars,
    oranVars, sctpVars, qunetVars, kemVars>>
notTestingVars == <<tunnelVars, cipherVars, netsquidVars, sequenceVars,
    oranVars, sctpVars, qunetVars, kemVars>>
notCipherVars == <<tunnelVars, testingVars, netsquidVars, sequenceVars,
    oranVars, sctpVars, qunetVars, kemVars>>
notNetsquidVars == <<tunnelVars, testingVars, cipherVars, sequenceVars,
    oranVars, sctpVars, qunetVars, kemVars>>
notSequenceVars == <<tunnelVars, testingVars, cipherVars, netsquidVars,
    oranVars, sctpVars, qunetVars, kemVars>>
notOranVars == <<tunnelVars, testingVars, cipherVars, netsquidVars,
    sequenceVars, sctpVars, qunetVars, kemVars>>
notSctpVars == <<tunnelVars, testingVars, cipherVars, netsquidVars,
    sequenceVars, oranVars, qunetVars, kemVars>>
notQunetVars == <<tunnelVars, testingVars, cipherVars, netsquidVars,
    sequenceVars, oranVars, sctpVars, kemVars>>
notKemVars == <<tunnelVars, testingVars, cipherVars, netsquidVars,
    sequenceVars, oranVars, sctpVars, qunetVars>>

----------------------------------------------------------------------------
(* Bounds of the model *)

\* number of poll events that fire
MaxPolls == 2
\* number of non-empty packets read from the sockets
MaxReads == 2
\* iterations of the packet-processing loop of the testing tunnel
MaxIter == 2
\* bytes of a digest of the model hash (32 for SHA-256)
DigestSize == 2
\* bytes of a digest kept by hexdigest()[:8] (4 of 32 for SHA-256)
DigestPrefixLen == 1
\* netsquid_tunnel.py: number of poll events that fire
N_MaxPolls == 110
\* netsquid_tunnel.py: number of packets read from the sockets
N_MaxReads == 2
\* netsquid_tunnel.py: length, in polls, of each of the two periods in which
\* the peers send
N_MaxDataPolls == 2
\* sequence_tunnel.py: number of packets read from the sockets
S_MaxReads == 2
\* sequence_tunnel_oran.py: number of packets read from the sockets
O_MaxReads == 4
\* sctp_tunnel.py: number of packets, and of empty reads, of each thread
K_MaxReads == 2
\* mytunnel2.py, mytunnel2_testtunnel.py: number of payloads read
Q_MaxReads == 3
\* number of calls of setup_keypair and establish_shared_secret on a manager
E_MaxCalls == 3

----------------------------------------------------------------------------
(* Program constants *)

POLL_INTERVAL == 1
F1AP_PPID == 62
\* FixedDelayModel(delay=150e-3), in thousandths
ChannelDelayMilli == 150

----------------------------------------------------------------------------
(* Python values *)

\* None, and a value that is not None
None == [some |-> FALSE, v |-> <<>>]
Some(x) == [some |-> TRUE, v |-> x]
\* truth value of an optional byte sequence: None and b"" are false
Truthy(o) == o.some /\ Len(o.v) > 0

RECURSIVE XorBits(_, _, _)
XorBits(a, b, n) ==
    IF n = 0 THEN 0
    ELSE (((a % 2) + (b % 2)) % 2) + (2 * XorBits(a \div 2, b \div 2, n - 1))
\* a ^ b on bytes
XorByte(a, b) == XorBits(a, b, 8)

Min(a, b) == IF a <= b THEN a ELSE b

\* the endpoint opposite to CU or DU
Other(side) == IF side = "CU" THEN "DU" ELSE "CU"

\* the element of a one-element set: The({f(x) : x \in {e}}) is f(e) with e
\* evaluated once
The(S) == CHOOSE x \in S : TRUE

\* bytes(a ^ b for a, b in zip(data, key_stream))
XorZip(data, key_stream) ==
    [i \in 1..Min(Len(data), Len(key_stream)) |-> XorByte(data[i], key_stream[i])]

----------------------------------------------------------------------------
(* hashlib.sha256: a fixed function from byte sequences to DigestSize bytes *)

RECURSIVE Absorb(_, _)
Absorb(acc, m) ==
    IF m = <<>> THEN acc
    ELSE Absorb(((acc * 31) + Head(m) + 1) % 65521, Tail(m))

RECURSIVE Pow(_, _)
Pow(b, e) == IF e = 0 THEN 1 ELSE b * Pow(b, e - 1)

\* hashlib.sha256(m).digest()
Sha256(m) ==
    LET a == Absorb(17, m)
    IN [i \in 1..DigestSize |-> (a \div Pow(32, i - 1)) % 256]

\* hashlib.sha256(m).hexdigest()[:8]: the leading bytes of the digest
HexDigest8(m) == SubSeq(Sha256(m), 1, Min(DigestPrefixLen, DigestSize))

\* struct.pack('>Q', 0)
CounterBytes == [i \in 1..8 |-> 0]

\* the while loop of protect_data: extend until len(key_stream) >= n
RECURSIVE ExtendKeyStream(_, _)
ExtendKeyStream(key_stream, n) ==
    IF Len(key_stream) >= n THEN key_stream
    ELSE LET key_material == Sha256(key_stream) \o CounterBytes
         IN ExtendKeyStream(key_stream \o Sha256(key_material), n)

----------------------------------------------------------------------------
(* PQCManager of netsquid_tunnel_PQC_tunnel.py.  A method is modelled by   *)
(* the pair of the manager after the call (self) and the value returned.   *)

PQCManager(name, is_server) ==
    [name |-> name, is_server |-> is_server, public_key |-> None,
     kem_instance |-> FALSE, shared_secret |-> None]

\* kem.generate_keypair(): "ok" with a key, "empty", or "raise"
KeygenOutcomes ==
    {[kind |-> "ok", pk |-> <<200>>], [kind |-> "empty", pk |-> <<>>],
     [kind |-> "raise", pk |-> <<>>]}

\* secrets the key encapsulation can produce
Secrets == {<<1, 1>>, <<9, 9>>, <<3, 7>>}

\* kem.encap_secret(pk): a ciphertext and a secret, or "raise"
EncapOutcomes ==
    {[kind |-> "ok", ct |-> <<201>>, ss |-> s] : s \in Secrets}
    \cup {[kind |-> "raise", ct |-> <<>>, ss |-> <<>>]}

\* kem.decap_secret(ct): a secret, or "raise"
DecapOutcomes ==
    {[kind |-> "ok", ss |-> s] : s \in Secrets}
    \cup {[kind |-> "raise", ss |-> <<>>]}

\* setup_keypair that does not keep the KEM object in kem_instance
SetupKeypairNoInstance(self, kg) ==
    IF ~self.is_server
    THEN IF kg.kind = "raise"
         THEN [self |-> self, ret |-> None, raised |-> TRUE]
         ELSE [self |-> [self EXCEPT !.public_key = Some(kg.pk)],
               ret |-> Some(kg.pk), raised |-> FALSE]
    ELSE [self |-> self, ret |-> None, raised |-> FALSE]

\* setup_keypair: ret is the public key; raised when generate_keypair raised
SetupKeypair(self, kg) ==
    IF ~self.is_server
    THEN IF kg.kind = "raise"
         THEN [self |-> [self EXCEPT !.kem_instance = TRUE],
               ret |-> None, raised |-> TRUE]
         ELSE [self |-> [self EXCEPT !.kem_instance = TRUE,
                                     !.public_key = Some(kg.pk)],
               ret |-> Some(kg.pk), raised |-> FALSE]
    ELSE [self |-> self, ret |-> None, raised |-> FALSE]

\* establish_shared_secret that forgets the secret when it fails
EstablishClearsOnFailure(self, client_public_key, server_ciphertext, enc, dec) ==
    IF self.is_server /\ Truthy(client_public_key)
    THEN IF enc.kind = "raise"
         THEN [self |-> [self EXCEPT !.shared_secret = None], ret |-> None]
         ELSE [self |-> [self EXCEPT !.shared_secret = Some(enc.ss)],
               ret |-> Some(enc.ct)]
    ELSE IF ~self.is_server /\ Truthy(server_ciphertext)
    THEN IF dec.kind = "raise" \/ ~self.kem_instance
         THEN [self |-> [self EXCEPT !.shared_secret = None], ret |-> None]
         ELSE [self |-> [self EXCEPT !.shared_secret = Some(dec.ss)],
               ret |-> Some(<<1>>)]
    ELSE [self |-> [self EXCEPT !.shared_secret = None], ret |-> None]

\* establish_shared_secret: ret is the ciphertext (server), b"\x01" standing
\* for True (initiator), or None; the except clause catches every error
EstablishSharedSecret(self, client_public_key, server_ciphertext, enc, dec) ==
    IF self.is_server /\ Truthy(client_public_key)
    THEN IF enc.kind = "raise"
         THEN [self |-> self, ret |-> None]
         ELSE [self |-> [self EXCEPT !.shared_secret = Some(enc.ss)],
               ret |-> Some(enc.ct)]
    ELSE IF ~self.is_server /\ Truthy(server_ciphertext)
    THEN IF dec.kind = "raise" \/ ~self.kem_instance
         THEN [self |-> self, ret |-> None]
         ELSE [self |-> [self EXCEPT !.shared_secret = Some(dec.ss)],
               ret |-> Some(<<1>>)]
    ELSE [self |-> self, ret |-> None]

\* the key stream without the while loop
KeyStreamOneBlock(secret, n) ==
    SubSeq(Sha256(secret \o CounterBytes), 1, Min(n, DigestSize))

\* key_stream of protect_data for a secret and len(data) = n
KeyStream(secret, n) ==
    LET key_material == secret \o CounterBytes
        key_stream == ExtendKeyStream(Sha256(key_material), n)
    IN SubSeq(key_stream, 1, n)

\* protect_data testing "shared_secret is None" only
ProtectDataNoneOnly(self, data, direction) ==
    IF ~self.shared_secret.some
    THEN [self |-> self, ret |-> None, raised |-> FALSE]
    ELSE [self |-> self, raised |-> FALSE,
          ret |-> Some(XorZip(data, KeyStream(self.shared_secret.v, Len(data))))]

\* protect_data that replaces the secret by its digest after each call
ProtectDataRekeys(self, data, direction) ==
    IF ~Truthy(self.shared_secret)
    THEN [self |-> self, ret |-> None, raised |-> FALSE]
    ELSE [self |-> [self EXCEPT !.shared_secret = Some(Sha256(@.v))],
          raised |-> FALSE,
          ret |-> Some(XorZip(data, KeyStream(self.shared_secret.v, Len(data))))]

\* protect_data: ret is the result or None; raised: an exception left the
\* method (every statement after the test of the secret is inside the try)
ProtectData(self, data, direction) ==
    IF ~Truthy(self.shared_secret)
    THEN [self |-> self, ret |-> None, raised |-> FALSE]
    ELSE [self |-> self, raised |-> FALSE,
          ret |-> Some(XorZip(data, KeyStream(self.shared_secret.v, Len(data))))]

----------------------------------------------------------------------------
(* Sockets, packets and the simulation's event queue *)

\* a connected socket after setblocking(False): the global holds it (ref),
\* its descriptor is open (fileno() != -1)
ConnectedSocket == [ref |-> TRUE, open |-> TRUE, blocking |-> FALSE]

\* "cu_client_socket and cu_client_socket.fileno() != -1"
IsValid(sock) == sock.ref /\ sock.open

\* clearing the global without closing the socket, the descriptor stays open
ClearWithoutClose(sock, close_raises) == sock

\* sock.close(); <global> = None, inside try/except: pass
CloseAndClear(sock, close_raises) ==
    IF close_raises THEN [sock EXCEPT !.open = FALSE]
    ELSE [sock EXCEPT !.open = FALSE, !.ref = FALSE]

\* payloads the peers send
PacketSet == {<<7>>, <<72, 105, 33>>}
\* payload tags an ancillary item can convey; 0 stands for no matching item
AncSet == {0, 7}

\* struct.pack('=I', n) under the platform's byte order
PackI(order, n) ==
    LET be == [i \in 1..4 |-> (n \div Pow(256, 4 - i)) % 256]
    IN IF order = "big" THEN be ELSE [i \in 1..4 |-> be[5 - i]]

\* struct.unpack('>I', b)[0]: big-endian whatever the platform
UnpackBigEndian(order, b) ==
    (b[1] * 16777216) + (b[2] * 65536) + (b[3] * 256) + b[4]

\* struct.unpack('=I', b)[0]
UnpackI(order, b) ==
    LET be == IF order = "big" THEN b ELSE [i \in 1..4 |-> b[5 - i]]
    IN (be[1] * 16777216) + (be[2] * 65536) + (be[3] * 256) + be[4]

\* an event of the simulation engine; node and items are used by deliveries
Event(type, time, node, items) ==
    [type |-> type, time |-> time, node |-> node, items |-> items]

\* the engine fires events by time, equal times in scheduling order
RECURSIVE Schedule(_, _)
Schedule(evs, e) ==
    IF evs = <<>> THEN <<e>>
    ELSE IF Head(evs).time <= e.time THEN <<Head(evs)>> \o Schedule(Tail(evs), e)
    ELSE <<e>> \o evs

\* port.tx_output(items) on the out_port of cu_node or du_node: the
\* connection's channel delivers to the other node's in_port after the delay
TxOutput(evs, t, from_node, items) ==
    Schedule(evs, Event("Deliver", t + ChannelDelayMilli,
                        IF from_node = "CU" THEN "DU" ELSE "CU", items))

EmptyTrace ==
    [handler |-> "none", reads |-> <<>>, protects |-> <<>>, txs |-> <<>>,
     sends |-> <<>>, closes |-> <<>>, selected |-> {}, error |-> "",
     compared |-> FALSE,
     kem |-> [kg |-> "", enc |-> "", dec |-> "", same |-> FALSE]]

----------------------------------------------------------------------------
(* SCTPEventHandler.initialize_pqc *)

\* a handshake that does not compare the digests
DigestsNotCompared(qcu, qdu) == TRUE

\* qcu_hash == qdu_hash, on the first 8 hex digits of the SHA-256 digests
DigestsMatch(qcu, qdu) ==
    HexDigest8(qcu.shared_secret.v) = HexDigest8(qdu.shared_secret.v)

\* The body of initialize_pqc on the two managers, for the outcomes kg, enc,
\* dec of the three key-encapsulation operations.  set_ready: the assignment
\* tunnel_ready = True was executed; txs: the tx_output calls made; error:
\* the exception caught by the handler ("" when none).
InitializePqcRun(qcu, qdu, kg, enc, dec) ==
    LET s1 == SetupKeypair(qdu, kg)
        tx1 == [from |-> "DU", kind |-> "handshake", items |-> s1.ret.v]
        s3 == EstablishSharedSecret(qcu, s1.ret, None, enc, dec)
        tx2 == [from |-> "CU", kind |-> "handshake", items |-> s3.ret.v]
        s5 == EstablishSharedSecret(s1.self, None, s3.ret, enc, dec)
        Result(a, b, r, t, e, c) ==
            [qcu |-> a, qdu |-> b, set_ready |-> r, txs |-> t, error |-> e,
             compared |-> c]
    IN IF s1.raised
       THEN Result(qcu, s1.self, FALSE, <<>>, "keypair raised", FALSE)
       ELSE IF ~Truthy(s1.ret)
       THEN Result(qcu, s1.self, FALSE, <<>>,
                   "Failed to generate QDU keypair", FALSE)
       ELSE IF ~Truthy(s3.ret)
       THEN Result(s3.self, s1.self, FALSE, <<tx1>>,
                   "QCU failed to generate ciphertext", FALSE)
       ELSE IF ~Truthy(s5.ret)
       THEN Result(s3.self, s5.self, FALSE, <<tx1, tx2>>,
                   "QDU failed to recover shared secret", FALSE)
       ELSE IF DigestsMatch(s3.self, s5.self)
       THEN Result(s3.self, s5.self, TRUE, <<tx1, tx2>>, "", TRUE)
       ELSE Result(s3.self, s5.self, FALSE, <<tx1, tx2>>,
                   "Shared secret mismatch between QCU and QDU", TRUE)

RECURSIVE TxAll(_, _, _)
TxAll(evs, t, txs) ==
    IF txs = <<>> THEN evs
    ELSE TxAll(TxOutput(evs, t, Head(txs).from, Head(txs).items), t, Tail(txs))

\* the Init event fires
InitializePqc ==
    /\ events # <<>>
    /\ Head(events).type = "Init"
    /\ \E kg \in KeygenOutcomes, enc \in EncapOutcomes, dec \in DecapOutcomes :
         LET r == InitializePqcRun(qcu_pqc, qdu_pqc, kg, enc, dec)
             t == Head(events).time
         IN /\ qcu_pqc' = r.qcu
            /\ qdu_pqc' = r.qdu
            /\ tunnel_ready' = (IF r.set_ready THEN TRUE ELSE tunnel_ready)
            /\ ready_writes' = ready_writes + (IF r.set_ready THEN 1 ELSE 0)
            /\ events' = TxAll(Tail(events), t, r.txs)
            /\ now' = t
            /\ trace' = [EmptyTrace EXCEPT !.handler = "init", !.txs = r.txs,
                                           !.error = r.error,
                                           !.compared = r.compared,
                                           !.kem = [kg |-> kg.kind,
                                                    enc |-> enc.kind,
                                                    dec |-> dec.kind,
                                                    same |-> enc.ss = dec.ss]]
    /\ UNCHANGED <<cu_client_socket, du_conn, byteorder, nread, blocked, ever,
                   accept_queue>>
    /\ UNCHANGED notTunnelVars

----------------------------------------------------------------------------
(* SCTPEventHandler: the data plane.  The handler's effects are threaded    *)
(* through a record st of the values it reads and writes.                   *)

\* what one socket does in one poll: recv is "idle" (not readable),
\* "recvmsg" (data and ancillary items), "recv" (recvmsg unsupported, the
\* fallback read), "empty", "blocking" (BlockingIOError), "reset"
\* (BrokenPipeError, ConnectionResetError) or "error" (any other exception);
\* send is what _send_with_ppid does on the destination: "sctp_send",
\* "sendall" (sctp_send unsupported) or "raise"; close_raises: close() raised
SendOutcomes == {"sctp_send", "sendall", "raise"}
Outcomes ==
    {[recv |-> "recvmsg", data |-> d, anc |-> a, send |-> s,
      close_raises |-> FALSE] : d \in PacketSet, a \in AncSet, s \in SendOutcomes}
    \cup {[recv |-> "recv", data |-> d, anc |-> 0, send |-> s,
           close_raises |-> FALSE] : d \in PacketSet, s \in SendOutcomes}
    \cup {[recv |-> k, data |-> <<>>, anc |-> 0, send |-> "sctp_send",
           close_raises |-> c] : k \in {"empty", "reset"}, c \in BOOLEAN}
    \cup {[recv |-> k, data |-> <<>>, anc |-> 0, send |-> "sctp_send",
           close_raises |-> FALSE] : k \in {"idle", "blocking", "error"}}

IsData(oc) == oc.recv \in {"recvmsg", "recv"}

\* a gate that is always open
GateAlwaysAdmits(ready) == TRUE

\* "if self.tunnel_ready:" of _process_socket_data and the check that opens
\* _process_data_through_pqc
GateAdmits(ready) == ready

\* an integrity check that passes every packet
IntegrityNotChecked(decrypted, orig_data) == TRUE

\* "decrypted != orig_data" negated: the packet passes the integrity check
IntegrityOk(decrypted, orig_data) == decrypted = orig_data

\* forwarding the ciphertext
ForwardedCiphertext(orig_data, encrypted, decrypted) == encrypted

\* the bytes handed to _send_with_ppid
ForwardedBytes(orig_data, encrypted, decrypted) == decrypted

\* a send block without the test of the destination
SendToTargetUnchecked(st, target, id, data, ppid, send) ==
    LET dst == IF target = "DU" THEN st.du ELSE st.cu
        after == [dst EXCEPT !.blocking = (send = "raise")]
        entry == [dst |-> target, id |-> id, data |-> data, ppid |-> ppid,
                  result |-> send]
        st1 == [st EXCEPT !.trace.sends = Append(@, entry),
                          !.ever.written = @ \/ (send # "raise")]
    IN IF target = "DU" THEN [st1 EXCEPT !.du = after]
       ELSE [st1 EXCEPT !.cu = after]

\* _send_with_ppid on a valid destination, between setblocking(True) and
\* setblocking(False); an exception skips the setblocking(False)
SendToTarget(st, target, id, data, ppid, send) ==
    LET dst == IF target = "DU" THEN st.du ELSE st.cu
        after == [dst EXCEPT !.blocking = (send = "raise")]
        entry == [dst |-> target, id |-> id, data |-> data, ppid |-> ppid,
                  result |-> send]
        st1 == [st EXCEPT !.trace.sends = Append(@, entry),
                          !.ever.written = @ \/ (send # "raise")]
    IN IF ~IsValid(dst) THEN st
       ELSE IF target = "DU" THEN [st1 EXCEPT !.du = after]
       ELSE [st1 EXCEPT !.cu = after]

\* the state after protect_data was called on the manager of one side
AfterProtect(st, mgr, r, id, data, direction) ==
    [st EXCEPT !.qcu = IF mgr = "QCU" THEN r.self ELSE @,
               !.qdu = IF mgr = "QDU" THEN r.self ELSE @,
               !.trace.protects =
                   Append(@, [mgr |-> mgr, id |-> id, data |-> data,
                              direction |-> direction, ret |-> r.ret]),
               !.ever.protected = TRUE]

\* the state after out_port.tx_output(data_with_ppid) on the source's node
AfterTx(st, source_name, data_with_ppid) ==
    [st EXCEPT !.events = TxOutput(@, st.now, source_name, data_with_ppid),
               !.trace.txs = Append(@, [from |-> source_name, kind |-> "data",
                                        items |-> data_with_ppid]),
               !.ever.data_tx = TRUE]

\* _process_data_through_pqc; e and d are the results of the two
\* protect_data calls, each evaluated once
ProcessDataThroughPqc(st, is_cu_socket, orig_data, id, ppid, send) ==
    LET source_name == IF is_cu_socket THEN "CU" ELSE "DU"
        target_name == IF is_cu_socket THEN "DU" ELSE "CU"
        src_mgr == IF is_cu_socket THEN "QCU" ELSE "QDU"
        dst_mgr == IF is_cu_socket THEN "QDU" ELSE "QCU"
    IN IF ~GateAdmits(st.ready)
       THEN [st EXCEPT !.trace.error = "direct communication without tunnel"]
       ELSE The({
         \* 1. encrypt with the manager of the source side
         LET st1 == AfterProtect(st, src_mgr, e, id, orig_data, "Encrypted")
             \* 2. through the simulated channel
             data_with_ppid == PackI(st.order, ppid) \o e.ret.v
             st2 == AfterTx(st1, source_name, data_with_ppid)
             received_ppid == UnpackI(st.order, SubSeq(data_with_ppid, 1, 4))
         IN IF ~Truthy(e.ret) THEN st1
            ELSE The({
              \* 3. decrypt with the manager of the target side
              LET st3 == AfterProtect(st2, dst_mgr, d, id, e.ret.v, "Decrypted")
              IN IF ~Truthy(d.ret) THEN st3
                 \* 4. integrity check
                 ELSE IF ~IntegrityOk(d.ret.v, orig_data)
                 THEN [st3 EXCEPT !.trace.error = "Data integrity check failed"]
                 \* 5. forward to the target socket
                 ELSE SendToTarget(st3, target_name, id,
                                   ForwardedBytes(orig_data, e.ret.v, d.ret.v),
                                   received_ppid, send)
              : d \in {ProtectData(IF is_cu_socket THEN st.qdu ELSE st.qcu,
                                   e.ret.v, "Decrypted")} })
         : e \in {ProtectData(IF is_cu_socket THEN st.qcu ELSE st.qdu,
                              orig_data, "Encrypted")} })

\* a close that also ends the session
HandleClosedEndsSession(st, sock, close_raises) ==
    LET entry == [sock |-> sock, close_raises |-> close_raises]
    IN IF sock = "CU"
       THEN [st EXCEPT !.cu = CloseAndClear(@, close_raises), !.ready = FALSE,
                       !.trace.closes = Append(@, entry)]
       ELSE [st EXCEPT !.du = CloseAndClear(@, close_raises), !.ready = FALSE,
                       !.trace.closes = Append(@, entry)]

\* _handle_empty_data and _handle_connection_error: close the socket the
\* data came from and clear its global
HandleClosed(st, sock, close_raises) ==
    LET entry == [sock |-> sock, close_raises |-> close_raises]
    IN IF sock = "CU"
       THEN [st EXCEPT !.cu = CloseAndClear(@, close_raises),
                       !.trace.closes = Append(@, entry)]
       ELSE [st EXCEPT !.du = CloseAndClear(@, close_raises),
                       !.trace.closes = Append(@, entry)]

\* a gate that forwards the blocked packet as it is
BlockPacketForwardAsIs(st, id) ==
    LET read == st.trace.reads[Len(st.trace.reads)]
    IN SendToTarget([st EXCEPT !.blocked = @ \cup {id}],
                    IF read.sock = "CU" THEN "DU" ELSE "CU", id, read.data,
                    read.ppid, "sctp_send")

\* a gate that reopens as soon as both managers hold a secret
BlockPacketRecheck(st, id) ==
    [st EXCEPT !.blocked = @ \cup {id},
               !.ready = Truthy(st.qcu.shared_secret)
                         /\ Truthy(st.qdu.shared_secret)]

\* the packet blocked by the gate: a warning is logged
BlockPacket(st, id) == [st EXCEPT !.blocked = @ \cup {id}]

\* _process_socket_data(sock), sock one of the two globals ("CU", "DU")
ProcessSocketData(st, sock, oc) ==
    LET is_cu_socket == (sock = "CU")
        ppid == IF oc.recv = "recvmsg" /\ oc.anc # 0 THEN oc.anc ELSE F1AP_PPID
        id == st.nread + 1
        read == [sock |-> sock, id |-> id, data |-> oc.data, ppid |-> ppid,
                 conveyed |-> (oc.recv = "recvmsg" /\ oc.anc # 0),
                 ready |-> st.ready]
        \* sock.setblocking(False) on entry
        st0 == IF is_cu_socket THEN [st EXCEPT !.cu.blocking = FALSE]
               ELSE [st EXCEPT !.du.blocking = FALSE]
        got == [st0 EXCEPT !.nread = id, !.trace.reads = Append(@, read)]
    IN IF oc.recv = "idle" THEN st
       ELSE The({
         \* finally: sock.setblocking(False) when its descriptor is open
         IF ~(IF is_cu_socket THEN body.cu ELSE body.du).open THEN body
         ELSE IF is_cu_socket THEN [body EXCEPT !.cu.blocking = FALSE]
         ELSE [body EXCEPT !.du.blocking = FALSE]
         : body \in {
             CASE oc.recv = "blocking" -> st0
               [] oc.recv = "empty" -> HandleClosed(st0, sock, oc.close_raises)
               [] oc.recv = "reset" -> HandleClosed(st0, sock, oc.close_raises)
               [] oc.recv = "error" ->
                    [st0 EXCEPT !.trace.error = "Transfer error"]
               [] IsData(oc) ->
                    IF GateAdmits(st.ready)
                    THEN ProcessDataThroughPqc(got, is_cu_socket, oc.data, id,
                                               ppid, oc.send)
                    ELSE BlockPacket(got, id)} })

\* a handler that ends without scheduling the next poll
PollNotRescheduled(evs, t) == evs

\* an init event scheduled after the second poll
InitEventAfterPolls == 2 * POLL_INTERVAL * 1000

\* "self._schedule_now(self.evtype_init)" in __init__: at time 0
InitEventTime == 0

\* _schedule_after(POLL_INTERVAL, evtype_poll)
ReschedulePoll(evs, t) ==
    Schedule(evs, Event("Poll", t + (POLL_INTERVAL * 1000), "-", <<>>))

\* the body of poll_sctp_messages: select over the valid sockets, then
\* _process_socket_data on each readable one, CU before DU
PollRun(st, select_raises, oc_cu, oc_du) ==
    LET valid_cu == IsValid(st.cu)
        valid_du == IsValid(st.du)
        valid_sockets == (IF valid_cu THEN {"CU"} ELSE {})
                         \cup (IF valid_du THEN {"DU"} ELSE {})
        st0 == [st EXCEPT !.trace.selected = valid_sockets]
        st1 == IF valid_cu THEN ProcessSocketData(st0, "CU", oc_cu) ELSE st0
        st2 == IF valid_du THEN ProcessSocketData(st1, "DU", oc_du) ELSE st1
        done == IF valid_sockets = {} THEN st
                ELSE IF select_raises
                THEN [st0 EXCEPT !.trace.error = "Select error"]
                ELSE st2
    IN [done EXCEPT !.events = ReschedulePoll(@, st.now)]

\* the Poll event fires
PollSctpMessages ==
    /\ events # <<>>
    /\ Head(events).type = "Poll"
    /\ Head(events).time <= MaxPolls * POLL_INTERVAL * 1000
    /\ \E select_raises \in BOOLEAN, oc_cu \in Outcomes, oc_du \in Outcomes :
         \* outcomes that cannot be told apart are drawn once
         /\ ~IsValid(cu_client_socket) => oc_cu.recv = "idle"
         /\ ~IsValid(du_conn) => oc_du.recv = "idle"
         /\ select_raises =>
              /\ IsValid(cu_client_socket) \/ IsValid(du_conn)
              /\ oc_cu.recv = "idle" /\ oc_du.recv = "idle"
         /\ \A oc \in {oc_cu, oc_du} :
              oc.send # "sctp_send" => IsData(oc) /\ tunnel_ready
         \* at most MaxReads packets are read in a run
         /\ nread + (IF IsData(oc_cu) THEN 1 ELSE 0)
                  + (IF IsData(oc_du) THEN 1 ELSE 0) <= MaxReads
         /\ LET st == [cu |-> cu_client_socket, du |-> du_conn,
                       qcu |-> qcu_pqc, qdu |-> qdu_pqc, ready |-> tunnel_ready,
                       events |-> Tail(events), now |-> Head(events).time,
                       order |-> byteorder, nread |-> nread,
                       blocked |-> blocked, ever |-> ever,
                       trace |-> [EmptyTrace EXCEPT !.handler = "poll"]]
            IN \E r \in {PollRun(st, select_raises, oc_cu, oc_du)} :
               /\ cu_client_socket' = r.cu
               /\ du_conn' = r.du
               /\ qcu_pqc' = r.qcu
               /\ qdu_pqc' = r.qdu
               /\ tunnel_ready' = r.ready
               /\ events' = r.events
               /\ now' = r.now
               /\ nread' = r.nread
               /\ blocked' = r.blocked
               /\ ever' = r.ever
               /\ trace' = r.trace
    /\ UNCHANGED <<byteorder, ready_writes, accept_queue>>
    /\ UNCHANGED notTunnelVars

\* a channel delivers a message to the in_port of a node:
\* SCTPNode.handle_message logs its length and forwards nothing
HandleMessage ==
    /\ events # <<>>
    /\ Head(events).type = "Deliver"
    /\ events' = Tail(events)
    /\ now' = Head(events).time
    /\ trace' = [EmptyTrace EXCEPT !.handler = "message"]
    /\ UNCHANGED <<tunnel_ready, qcu_pqc, qdu_pqc, cu_client_socket, du_conn,
                   byteorder, nread, blocked, ever, ready_writes, accept_queue>>
    /\ UNCHANGED notTunnelVars

\* the DU connects again after its connection was closed: server_socket is
\* still listening ("server_socket.listen(1)"), so the new connection waits
\* in its accept queue
DuReconnects ==
    /\ ~IsValid(du_conn)
    /\ accept_queue = 0
    /\ accept_queue' = 1
    \* no handler ran
    /\ trace' = [EmptyTrace EXCEPT !.handler = "reconnect"]
    /\ UNCHANGED <<tunnel_ready, qcu_pqc, qdu_pqc, cu_client_socket, du_conn,
                   events, now, byteorder, nread, blocked, ever, ready_writes>>
    /\ UNCHANGED notTunnelVars

----------------------------------------------------------------------------
(* netsquid_tunnel_PQC_testing.py *)

\* PQCManager of the testing tunnel: the same fields and a counter
T_PQCManager(name, is_server) ==
    [name |-> name, is_server |-> is_server, public_key |-> None,
     kem_instance |-> FALSE, shared_secret |-> None, counter |-> 0]

\* setup_keypair: as in the tunnel, after a sleep
T_SetupKeypair(self, kg) == SetupKeypair(self, kg)

\* establish_shared_secret: as in the tunnel, after a sleep
T_EstablishSharedSecret(self, client_public_key, server_ciphertext, enc, dec) ==
    EstablishSharedSecret(self, client_public_key, server_ciphertext, enc, dec)

\* protect_data that mixes the manager's counter into the key material and
\* counts the calls
T_ProtectDataCounting(self, data, direction) ==
    IF ~Truthy(self.shared_secret)
    THEN [self |-> self, ret |-> None, raised |-> FALSE]
    ELSE [self |-> [self EXCEPT !.counter = @ + 1], raised |-> FALSE,
          ret |-> Some(XorZip(data, KeyStream(self.shared_secret.v
                                                  \o <<self.counter>>,
                                              Len(data))))]

\* protect_data: both branches on the direction label return the result
T_ProtectData(self, data, direction) ==
    IF ~Truthy(self.shared_secret)
    THEN [self |-> self, ret |-> None, raised |-> FALSE]
    ELSE IF direction = "Encrypting"
    THEN [self |-> self, raised |-> FALSE,
          ret |-> Some(XorZip(data, KeyStream(self.shared_secret.v, Len(data))))]
    ELSE [self |-> self, raised |-> FALSE,
          ret |-> Some(XorZip(data, KeyStream(self.shared_secret.v, Len(data))))]

\* create_quantum_network (start_protocol generates a first keypair, kg0) and
\* the handshake of main; raised: an exception left main before the loop
T_MainHandshake(kg0, kg, enc, dec) ==
    LET s0 == T_SetupKeypair(T_PQCManager("QCU", FALSE), kg0)
        s1 == T_SetupKeypair(s0.self, kg)
        qdu0 == T_PQCManager("QDU", TRUE)
        s2 == T_EstablishSharedSecret(qdu0, s1.ret, None, enc, dec)
        s3 == T_EstablishSharedSecret(s1.self, None, s2.ret, enc, dec)
    IN IF s0.raised THEN [qcu |-> s0.self, qdu |-> qdu0, raised |-> TRUE]
       ELSE IF s1.raised THEN [qcu |-> s1.self, qdu |-> qdu0, raised |-> TRUE]
       ELSE IF ~Truthy(s1.ret) THEN [qcu |-> s1.self, qdu |-> qdu0, raised |-> FALSE]
       ELSE IF ~Truthy(s2.ret) THEN [qcu |-> s1.self, qdu |-> s2.self, raised |-> FALSE]
       ELSE [qcu |-> s3.self, qdu |-> s2.self, raised |-> FALSE]

\* main up to the call of handle_packet_processing
T_Main ==
    /\ t_pc = "start"
    /\ \E kg0 \in KeygenOutcomes, kg \in KeygenOutcomes,
          enc \in EncapOutcomes, dec \in DecapOutcomes :
         \E r \in {T_MainHandshake(kg0, kg, enc, dec)} :
            /\ t_qcu' = r.qcu
            /\ t_qdu' = r.qdu
            /\ t_pc' = IF r.raised THEN "exit" ELSE "loop"
    /\ UNCHANGED <<t_iter, t_trace, t_closed>>
    /\ UNCHANGED notTestingVars

\* what one socket does in one iteration: recv is "idle" (not ready), "data",
\* "empty" or "raise"; send is "ok" or "raise"
T_Outcomes ==
    {[recv |-> "data", data |-> d, send |-> s] :
        d \in PacketSet, s \in {"ok", "raise"}}
    \cup {[recv |-> k, data |-> <<>>, send |-> "ok"] :
            k \in {"idle", "empty", "raise"}}

\* recvs: the recv calls made; closed_before: the sockets whose peer had
\* closed before the iteration
T_EmptyTrace ==
    [recvs |-> <<>>, reads |-> <<>>, sends |-> <<>>, error |-> FALSE,
     closed_before |-> {}]

\* the body of "for sock in ready" for one socket; once an exception was
\* raised (error) the rest of the iteration is skipped
T_ProcessSocket(st, sock, oc) ==
    LET is_cu == (sock = "CU")
        target == IF is_cu THEN "DU" ELSE "CU"
        read == [sock |-> sock, data |-> oc.data]
        \* data = sock.recv(BUFFER_SIZE)
        called == [st EXCEPT !.trace.recvs =
                                 Append(@, [sock |-> sock, result |-> oc.recv])]
        got == [called EXCEPT !.trace.reads = Append(@, read)]
    IN IF st.trace.error \/ oc.recv = "idle" THEN st
       ELSE IF oc.recv = "raise" THEN [called EXCEPT !.trace.error = TRUE]
       \* "if not data: continue"
       ELSE IF oc.recv = "empty" THEN [called EXCEPT !.closed = @ \cup {sock}]
       ELSE The({
         LET sent == IF Truthy(r.ret)
                     THEN [dst |-> target, data |-> r.ret.v,
                           kind |-> "protected", src_data |-> oc.data,
                           result |-> oc.send]
                     \* fallback: forward as-is
                     ELSE [dst |-> target, data |-> oc.data,
                           kind |-> "as-is", src_data |-> oc.data,
                           result |-> oc.send]
         IN [got EXCEPT !.qcu = IF is_cu THEN r.self ELSE @,
                        !.qdu = IF is_cu THEN @ ELSE r.self,
                        !.trace.sends = Append(@, sent),
                        !.trace.error = (oc.send = "raise")]
         : r \in {IF is_cu THEN T_ProtectData(st.qcu, oc.data, "Encrypting")
                  ELSE T_ProtectData(st.qdu, oc.data, "Decrypting")} })

\* one iteration of the while True loop of handle_packet_processing: select,
\* then the ready sockets in the order [cu_client_socket, du_conn]
T_LoopIteration ==
    /\ t_pc = "loop"
    /\ t_iter < MaxIter
    /\ \E oc_cu \in T_Outcomes, oc_du \in T_Outcomes :
         \* a socket whose peer has closed stays readable and delivers no data
         /\ "CU" \in t_closed => oc_cu.recv \in {"empty", "raise"}
         /\ "DU" \in t_closed => oc_du.recv \in {"empty", "raise"}
         /\ LET st == [qcu |-> t_qcu, qdu |-> t_qdu, closed |-> t_closed,
                       trace |-> [T_EmptyTrace EXCEPT
                                      !.closed_before = t_closed]]
            IN \E r \in {T_ProcessSocket(T_ProcessSocket(st, "CU", oc_cu),
                                         "DU", oc_du)} :
                 /\ t_qcu' = r.qcu
                 /\ t_qdu' = r.qdu
                 /\ t_trace' = r.trace
                 /\ t_closed' = r.closed
    /\ t_iter' = t_iter + 1
    /\ UNCHANGED t_pc
    /\ UNCHANGED notTestingVars

\* KeyboardInterrupt inside the loop: break, then cleanup_connections
T_Interrupt ==
    /\ t_pc = "loop"
    /\ t_pc' = "exit"
    /\ UNCHANGED <<t_qcu, t_qdu, t_iter, t_trace, t_closed>>
    /\ UNCHANGED notTestingVars

----------------------------------------------------------------------------
(* protect_data as a pure function: two managers holding the same secret,  *)
(* one call on the data and a second call on the result of the first       *)

\* the values shared_secret can hold
CipherSecrets == {None, Some(<<>>)} \cup {Some(s) : s \in Secrets}

\* the inputs
DataSet == {<<>>, <<7>>, <<72, 105>>, <<72, 105, 33>>, <<1, 2, 3, 4, 5>>}

\* the direction labels the callers pass
Directions == {"Encrypted", "Decrypted", "Encrypting", "Decrypting"}

\* protect_data of the manager's class
CallProtectData(self, data, direction) ==
    IF "counter" \in DOMAIN self THEN T_ProtectData(self, data, direction)
    ELSE ProtectData(self, data, direction)

NoCall == [who |-> 0, direction |-> "", input |-> <<>>, ret |-> None,
           raised |-> FALSE, before |-> <<>>]

C_First ==
    /\ c_pc = "start"
    /\ \E who \in {1, 2}, dir \in Directions :
         \E r \in {CallProtectData(c_mgr[who], c_data, dir)} :
            /\ c_mgr' = [c_mgr EXCEPT ![who] = r.self]
            /\ c_call1' = [who |-> who, direction |-> dir, input |-> c_data,
                           ret |-> r.ret, raised |-> r.raised,
                           before |-> c_mgr]
    /\ c_pc' = "once"
    /\ UNCHANGED <<c_data, c_call2, c_call3>>
    /\ UNCHANGED notCipherVars

C_Second ==
    /\ c_pc = "once"
    /\ c_call1.ret.some
    /\ \E who \in {1, 2}, dir \in Directions :
         \E r \in {CallProtectData(c_mgr[who], c_call1.ret.v, dir)} :
            /\ c_mgr' = [c_mgr EXCEPT ![who] = r.self]
            /\ c_call2' = [who |-> who, direction |-> dir,
                           input |-> c_call1.ret.v, ret |-> r.ret,
                           raised |-> r.raised, before |-> c_mgr]
    /\ c_pc' = "twice"
    /\ UNCHANGED <<c_data, c_call1, c_call3>>
    /\ UNCHANGED notCipherVars

\* a third call, after the two others, on the first input or on another one
C_Third ==
    /\ c_pc = "twice"
    /\ \E who \in {1, 2}, dir \in Directions, data \in DataSet :
         \E r \in {CallProtectData(c_mgr[who], data, dir)} :
            /\ c_mgr' = [c_mgr EXCEPT ![who] = r.self]
            /\ c_call3' = [who |-> who, direction |-> dir, input |-> data,
                           ret |-> r.ret, raised |-> r.raised,
                           before |-> c_mgr]
    /\ c_pc' = "thrice"
    /\ UNCHANGED <<c_data, c_call1, c_call2>>
    /\ UNCHANGED notCipherVars

----------------------------------------------------------------------------
(* netsquid_tunnel.py: a single-threaded simulation.  The poll event reads  *)
(* the sockets; a packet from the CU goes through process_cu_message, the   *)
(* QCU processing event, the channel to QDU, handle_message_from_qcu and    *)
(* the QDU forwarding event; a packet from the DU takes the mirror path.    *)
(* Events carry no payload: each handler uses the pending slot of its node. *)
(* gid is the id of the packet whose arrival scheduled the event.           *)

\* POLL_INTERVAL of netsquid_tunnel.py, in ns
N_POLL_INTERVAL == 10000
\* a processing delay of two poll intervals
SlowProcessDelay == 2 * N_POLL_INTERVAL

\* qcu_processing_delay of process_cu_message
QcuProcessDelay == 6000
\* qcu_processing_delay of handle_message_from_qdu
QcuForwardDelay == 6000
\* qdu_processing_delay of process_du_message
QduProcessDelay == 6000
\* qdu_processing_delay of handle_message_from_qcu
QduForwardDelay == 6000
\* FibreDelayModel(c=200000), in km/s
FibreSpeed == 200000
\* quantum_distance = 100000e-3, in km
quantum_distance == 100
\* the delay of the two channels of QuantumConnection, in ns:
\* 1e9 * length / c
FibreDelay == (1000000 * quantum_distance) \div (FibreSpeed \div 1000)

\* an attribute that was never assigned (hasattr is false), and one holding x
Unset == [attr |-> FALSE, val |-> None]
Attr(x) == [attr |-> TRUE, val |-> x]

QCUNode == [pending_cu_data |-> Unset, pending_data |-> Unset]
QDUNode == [pending_du_data |-> Unset, pending_data |-> Unset]

\* an event of the engine; items is the payload a channel delivery carries
N_Event(type, time, items, gid) ==
    [type |-> type, time |-> time, items |-> items, gid |-> gid]

\* what a handler transmitted: ev names the step, data the payload used
N_Entry(ev, gid, data, result, time) ==
    [ev |-> ev, gid |-> gid, data |-> data, result |-> result, time |-> time]

\* what one socket does in one poll; a read that is empty or raises changes
\* nothing ("if payload:", "except Exception: pass")
N_Outcomes == {"idle", "data", "empty", "raise"}

\* the payload of the packet with the given id: every packet is different
N_Payload(id) == <<id>>

\* the poll with the given number falls in a period in which the peers send:
\* the first polls, and the polls that coincide with the first deliveries
N_InDataPeriod(k) ==
    LET first == FibreDelay \div N_POLL_INTERVAL
    IN \/ k <= N_MaxDataPolls
       \/ k > first /\ k <= first + N_MaxDataPolls

\* process_cu_message that hands the payload to QDU's forwarding event itself
N_ProcessCuMessageDirect(st, payload) ==
    LET id == Len(st.packets) + 1
    IN [st EXCEPT !.packets = Append(@, [src |-> "CU", data |-> payload,
                                         time |-> st.now]),
                  !.qdu.pending_data = Attr(Some(payload)),
                  !.events = Schedule(@, N_Event("ForwardDU",
                                                 st.now + QcuProcessDelay,
                                                 None, id))]

\* QCUNode.process_cu_message
N_ProcessCuMessage(st, payload) ==
    LET id == Len(st.packets) + 1
    IN [st EXCEPT !.packets = Append(@, [src |-> "CU", data |-> payload,
                                         time |-> st.now]),
                  !.qcu.pending_cu_data = Attr(Some(payload)),
                  !.events = Schedule(@, N_Event("ProcessCU",
                                                 st.now + QcuProcessDelay,
                                                 None, id))]

\* QDUNode.process_du_message
N_ProcessDuMessage(st, payload) ==
    LET id == Len(st.packets) + 1
    IN [st EXCEPT !.packets = Append(@, [src |-> "DU", data |-> payload,
                                         time |-> st.now]),
                  !.qdu.pending_du_data = Attr(Some(payload)),
                  !.events = Schedule(@, N_Event("ProcessDU",
                                                 st.now + QduProcessDelay,
                                                 None, id))]

\* the body of poll_sctp_messages: the CU socket, then the DU socket, then
\* the next poll is scheduled
N_PollRun(st, oc_cu, oc_du) ==
    LET st1 == IF oc_cu = "data"
               THEN N_ProcessCuMessage(st, N_Payload(Len(st.packets) + 1))
               ELSE st
        st2 == IF oc_du = "data"
               THEN N_ProcessDuMessage(st1, N_Payload(Len(st1.packets) + 1))
               ELSE st1
    IN [st2 EXCEPT !.events = Schedule(@, N_Event("Poll",
                                                  st.now + N_POLL_INTERVAL,
                                                  None, 0))]

\* SCTPEventHandler.poll_sctp_messages: the Poll event fires
N_PollSctpMessages ==
    /\ n_events # <<>>
    /\ Head(n_events).type = "Poll"
    /\ n_polls < N_MaxPolls
    /\ \E oc_cu \in N_Outcomes, oc_du \in N_Outcomes :
         /\ (oc_cu = "data" \/ oc_du = "data") => N_InDataPeriod(n_polls + 1)
         /\ Len(n_packets) + (IF oc_cu = "data" THEN 1 ELSE 0)
                           + (IF oc_du = "data" THEN 1 ELSE 0) <= N_MaxReads
         /\ LET st == [qcu |-> n_qcu, qdu |-> n_qdu, events |-> Tail(n_events),
                       now |-> Head(n_events).time, packets |-> n_packets]
            IN \E r \in {N_PollRun(st, oc_cu, oc_du)} :
                 /\ n_qcu' = r.qcu
                 /\ n_qdu' = r.qdu
                 /\ n_events' = r.events
                 /\ n_now' = r.now
                 /\ n_packets' = r.packets
    /\ n_polls' = n_polls + 1
    /\ UNCHANGED n_log
    /\ UNCHANGED notNetsquidVars

\* QCUNode.quantum_process_cu_message: the QCU processing event fires
N_QuantumProcessCuMessage ==
    /\ n_events # <<>>
    /\ Head(n_events).type = "ProcessCU"
    /\ LET e == Head(n_events)
       IN /\ n_now' = e.time
          /\ IF n_qcu.pending_cu_data.attr
             THEN /\ n_events' = Schedule(Tail(n_events),
                                          N_Event("DeliverQDU",
                                                  e.time + FibreDelay,
                                                  n_qcu.pending_cu_data.val,
                                                  e.gid))
                  /\ n_log' = Append(n_log,
                                     N_Entry("tx_qcu", e.gid,
                                             n_qcu.pending_cu_data.val, "ok",
                                             e.time))
                  /\ n_qcu' = [n_qcu EXCEPT !.pending_cu_data = Attr(None)]
             ELSE /\ n_events' = Tail(n_events)
                  /\ UNCHANGED <<n_log, n_qcu>>
    /\ UNCHANGED <<n_qdu, n_polls, n_packets>>
    /\ UNCHANGED notNetsquidVars

\* QDUNode.quantum_process_du_message: the QDU processing event fires
N_QuantumProcessDuMessage ==
    /\ n_events # <<>>
    /\ Head(n_events).type = "ProcessDU"
    /\ LET e == Head(n_events)
       IN /\ n_now' = e.time
          /\ IF n_qdu.pending_du_data.attr
             THEN /\ n_events' = Schedule(Tail(n_events),
                                          N_Event("DeliverQCU",
                                                  e.time + FibreDelay,
                                                  n_qdu.pending_du_data.val,
                                                  e.gid))
                  /\ n_log' = Append(n_log,
                                     N_Entry("tx_qdu", e.gid,
                                             n_qdu.pending_du_data.val, "ok",
                                             e.time))
                  /\ n_qdu' = [n_qdu EXCEPT !.pending_du_data = Attr(None)]
             ELSE /\ n_events' = Tail(n_events)
                  /\ UNCHANGED <<n_log, n_qdu>>
    /\ UNCHANGED <<n_qcu, n_polls, n_packets>>
    /\ UNCHANGED notNetsquidVars

\* QDUNode.handle_message_from_qcu: the channel delivers to QDU's in_port.
\* The nested Message is unwrapped; a payload that is not bytes (None)
\* cannot be converted and the handler returns.
N_HandleMessageFromQcu ==
    /\ n_events # <<>>
    /\ Head(n_events).type = "DeliverQDU"
    /\ LET e == Head(n_events)
       IN /\ n_now' = e.time
          /\ n_log' = Append(n_log, N_Entry("at_qdu", e.gid, e.items, "ok",
                                            e.time))
          /\ IF e.items.some
             THEN /\ n_qdu' = [n_qdu EXCEPT !.pending_data = Attr(e.items)]
                  /\ n_events' = Schedule(Tail(n_events),
                                          N_Event("ForwardDU",
                                                  e.time + QduForwardDelay,
                                                  None, e.gid))
             ELSE /\ n_events' = Tail(n_events)
                  /\ UNCHANGED n_qdu
    /\ UNCHANGED <<n_qcu, n_polls, n_packets>>
    /\ UNCHANGED notNetsquidVars

\* QCUNode.handle_message_from_qdu: the channel delivers to QCU's in_port
N_HandleMessageFromQdu ==
    /\ n_events # <<>>
    /\ Head(n_events).type = "DeliverQCU"
    /\ LET e == Head(n_events)
       IN /\ n_now' = e.time
          /\ n_log' = Append(n_log, N_Entry("at_qcu", e.gid, e.items, "ok",
                                            e.time))
          /\ IF e.items.some
             THEN /\ n_qcu' = [n_qcu EXCEPT !.pending_data = Attr(e.items)]
                  /\ n_events' = Schedule(Tail(n_events),
                                          N_Event("ForwardCU",
                                                  e.time + QcuForwardDelay,
                                                  None, e.gid))
             ELSE /\ n_events' = Tail(n_events)
                  /\ UNCHANGED n_qcu
    /\ UNCHANGED <<n_qdu, n_polls, n_packets>>
    /\ UNCHANGED notNetsquidVars

\* QDUNode.forward_to_du: the QDU forwarding event fires; an exception of
\* send is caught and leaves pending_data as it is
N_ForwardToDu ==
    /\ n_events # <<>>
    /\ Head(n_events).type = "ForwardDU"
    /\ LET e == Head(n_events)
       IN /\ n_now' = e.time
          /\ n_events' = Tail(n_events)
          /\ IF n_qdu.pending_data.attr /\ Truthy(n_qdu.pending_data.val)
             THEN \E send \in {"ok", "raise"} :
                    /\ n_log' = Append(n_log,
                                       N_Entry("send_du", e.gid,
                                               n_qdu.pending_data.val, send,
                                               e.time))
                    /\ n_qdu' = IF send = "ok"
                                THEN [n_qdu EXCEPT !.pending_data = Attr(None)]
                                ELSE n_qdu
             ELSE UNCHANGED <<n_log, n_qdu>>
    /\ UNCHANGED <<n_qcu, n_polls, n_packets>>
    /\ UNCHANGED notNetsquidVars

\* QCUNode.forward_to_cu: the QCU forwarding event fires
N_ForwardToCu ==
    /\ n_events # <<>>
    /\ Head(n_events).type = "ForwardCU"
    /\ LET e == Head(n_events)
       IN /\ n_now' = e.time
          /\ n_events' = Tail(n_events)
          /\ IF n_qcu.pending_data.attr /\ Truthy(n_qcu.pending_data.val)
             THEN \E send \in {"ok", "raise"} :
                    /\ n_log' = Append(n_log,
                                       N_Entry("send_cu", e.gid,
                                               n_qcu.pending_data.val, send,
                                               e.time))
                    /\ n_qcu' = IF send = "ok"
                                THEN [n_qcu EXCEPT !.pending_data = Attr(None)]
                                ELSE n_qcu
             ELSE UNCHANGED <<n_log, n_qcu>>
    /\ UNCHANGED <<n_qdu, n_polls, n_packets>>
    /\ UNCHANGED notNetsquidVars

----------------------------------------------------------------------------
(* The timeline of the SeQUeNCe kernel, used by sequence_tunnel.py and     *)
(* sequence_tunnel_oran.py: events are kept in a binary heap ordered by    *)
(* their time (all events here have the default priority), pushed by       *)
(* timeline.schedule and popped by timeline.run.                           *)

\* Event.__lt__ for events of equal priority
EvLt(a, b) == a.time < b.time

\* _siftdown of the heap: move newitem from position pos towards startpos
\* (positions count from 0)
RECURSIVE SiftDown(_, _, _, _)
SiftDown(heap, startpos, pos, newitem) ==
    LET parentpos == (pos - 1) \div 2
    IN IF pos > startpos /\ EvLt(newitem, heap[parentpos + 1])
       THEN SiftDown([heap EXCEPT ![pos + 1] = heap[parentpos + 1]],
                     startpos, parentpos, newitem)
       ELSE [heap EXCEPT ![pos + 1] = newitem]

\* _siftup of the heap: bubble the smaller child up until a leaf is hit,
\* put newitem there and sift it down
RECURSIVE SiftUp(_, _, _)
SiftUp(heap, pos, newitem) ==
    LET endpos == Len(heap)
        childpos == (2 * pos) + 1
        rightpos == childpos + 1
        c == IF rightpos < endpos
                /\ ~EvLt(heap[childpos + 1], heap[rightpos + 1])
             THEN rightpos ELSE childpos
    IN IF childpos < endpos
       THEN SiftUp([heap EXCEPT ![pos + 1] = heap[c + 1]], c, newitem)
       ELSE SiftDown([heap EXCEPT ![pos + 1] = newitem], 0, pos, newitem)

\* timeline.schedule(event): push on the heap
HeapPush(heap, item) == SiftDown(Append(heap, item), 0, Len(heap), item)

\* the pop of timeline.run on a non-empty heap: the event and the heap left
HeapPop(heap) ==
    LET lastelt == heap[Len(heap)]
        rest == SubSeq(heap, 1, Len(heap) - 1)
    IN IF rest = <<>> THEN [item |-> lastelt, heap |-> <<>>]
       ELSE [item |-> rest[1],
             heap |-> SiftUp([rest EXCEPT ![1] = lastelt], 0, lastelt)]

----------------------------------------------------------------------------
(* sequence_tunnel.py: two threads.  H runs handle_sctp_data: it reads the  *)
(* CU socket, then the DU socket, then runs the timeline when it has        *)
(* events.  S runs run_sequence_simulation: it runs the timeline whenever   *)
(* it has events.  timeline.run pops the events one by one and calls        *)
(* deliver_to_du (node QCU) or deliver_to_cu (node QDU), which sleeps,      *)
(* sends the node's pending_data and clears it.  No lock is taken.          *)

\* QUANTUM_DELAY_PS and SIMULATION_TIME_PS, in units of 1e9 ps
QUANTUM_DELAY_PS == 125
SIMULATION_TIME_PS == 3600000

Threads == {"H", "S"}

\* QuantumTunnelNode.__init__: pending_data is not assigned
QuantumTunnelNode == [message_count |-> 0, pending_data |-> Unset,
                      data_start_time |-> 0]

\* the socket a node delivers to
S_Destination(node) == IF node = "QCU" THEN "DU" ELSE "CU"

\* process_classical_data on nodes that share one pending slot
ProcessClassicalDataSharedSlot(st, node, data) ==
    LET id == Len(st.packets) + 1
    IN [st EXCEPT
          !.packets = Append(@, [src |-> Other(S_Destination(node)),
                                 data |-> data]),
          !.node = [n \in DOMAIN st.node |->
                      [st.node[n] EXCEPT !.pending_data = Attr(Some(data))]],
          !.heap = HeapPush(@, [time |-> st.time + QUANTUM_DELAY_PS,
                                node |-> node, gid |-> id])]

\* QuantumTunnelNode.process_classical_data
ProcessClassicalData(st, node, data) ==
    LET id == Len(st.packets) + 1
    IN [st EXCEPT
          !.packets = Append(@, [src |-> Other(S_Destination(node)),
                                 data |-> data]),
          !.node[node].message_count = @ + 1,
          !.node[node].pending_data = Attr(Some(data)),
          !.node[node].data_start_time = st.time,
          !.heap = HeapPush(@, [time |-> st.time + QUANTUM_DELAY_PS,
                                node |-> node, gid |-> id])]

\* what a recv of the handler thread does
S_Outcomes == {"idle", "data", "empty", "raise"}

\* a thread is inside timeline.run
InRun(pc) == pc \in {"run", "sleep", "clear"}

\* one socket of handle_sctp_data: "if sock in readable: recv; if data:
\* node.process_classical_data(...)"; to is the position of H after it
S_HandleSocket(to, node) ==
    /\ \E oc \in S_Outcomes :
         /\ oc = "data" => Len(s_packets) < S_MaxReads
         /\ IF oc = "data"
            THEN LET st == [node |-> s_node, heap |-> s_heap, time |-> s_time,
                            packets |-> s_packets]
                 IN \E r \in {ProcessClassicalData(
                                 st, node, N_Payload(Len(s_packets) + 1))} :
                      /\ s_node' = r.node
                      /\ s_heap' = r.heap
                      /\ s_packets' = r.packets
                      /\ s_raced' = (s_raced \/ InRun(s_pc["S"]))
            ELSE UNCHANGED <<s_node, s_heap, s_packets, s_raced>>
    /\ s_pc' = [s_pc EXCEPT !["H"] = to]
    /\ UNCHANGED <<s_time, s_cur, s_sends>>
    /\ UNCHANGED notSequenceVars

\* handle_sctp_data: "Handle CU to DU"
S_HandleCuData ==
    /\ s_pc["H"] = "cu"
    /\ S_HandleSocket("du", "QCU")

\* handle_sctp_data: "Handle DU to CU"
S_HandleDuData ==
    /\ s_pc["H"] = "du"
    /\ S_HandleSocket("check", "QDU")

\* handle_sctp_data: "if timeline.events: timeline.run()"
S_HandlerChecksTimeline ==
    /\ s_pc["H"] = "check"
    /\ s_pc' = [s_pc EXCEPT !["H"] = IF s_heap # <<>> THEN "run" ELSE "cu"]
    /\ UNCHANGED <<s_node, s_heap, s_time, s_cur, s_packets, s_sends, s_raced>>
    /\ UNCHANGED notSequenceVars

\* run_sequence_simulation: "if timeline and timeline.events:
\* timeline.run()", else sleep and test again
S_RunSequenceSimulation ==
    /\ s_pc["S"] = "check"
    /\ s_heap # <<>>
    /\ s_pc' = [s_pc EXCEPT !["S"] = "run"]
    /\ UNCHANGED <<s_node, s_heap, s_time, s_cur, s_packets, s_sends, s_raced>>
    /\ UNCHANGED notSequenceVars

\* the position of a thread after timeline.run returned
S_AfterRun(t) == IF t = "H" THEN "cu" ELSE "check"

\* timeline.run, one turn of "while len(self.events) > 0": pop the event;
\* one at or after stop_time is pushed back and the run ends; otherwise the
\* time is set and deliver_to_cu / deliver_to_du starts, which returns at
\* once when pending_data is unset or falsy and else goes to sleep
S_TimelineRun(t) ==
    /\ s_pc[t] = "run"
    /\ IF s_heap = <<>>
       THEN /\ s_pc' = [s_pc EXCEPT ![t] = S_AfterRun(t)]
            /\ UNCHANGED <<s_heap, s_time, s_cur>>
       ELSE \E p \in {HeapPop(s_heap)} :
              IF p.item.time >= SIMULATION_TIME_PS
              THEN /\ s_heap' = HeapPush(p.heap, p.item)
                   /\ s_pc' = [s_pc EXCEPT ![t] = S_AfterRun(t)]
                   /\ UNCHANGED <<s_time, s_cur>>
              ELSE /\ s_heap' = p.heap
                   /\ s_time' = p.item.time
                   /\ LET slot == s_node[p.item.node].pending_data
                      IN IF slot.attr /\ Truthy(slot.val)
                         THEN /\ s_pc' = [s_pc EXCEPT ![t] = "sleep"]
                              /\ s_cur' = [s_cur EXCEPT ![t] = p.item]
                         ELSE UNCHANGED <<s_pc, s_cur>>
    /\ UNCHANGED <<s_node, s_packets, s_sends, s_raced>>
    /\ UNCHANGED notSequenceVars

\* deliver_to_cu / deliver_to_du after time.sleep: len(self.pending_data)
\* and socket.send(self.pending_data); with pending_data None both raise,
\* and every exception is caught and ends the delivery
S_DeliverSend(t) ==
    /\ s_pc[t] = "sleep"
    /\ LET node == s_cur[t].node
           slot == s_node[node].pending_data
       IN IF ~slot.val.some
          THEN /\ s_pc' = [s_pc EXCEPT ![t] = "run"]
               /\ UNCHANGED s_sends
          ELSE \E send \in {"ok", "raise"} :
                 /\ s_sends' = Append(s_sends,
                                      [dst |-> S_Destination(node),
                                       data |-> slot.val.v, result |-> send,
                                       gid |-> s_cur[t].gid, thread |-> t])
                 /\ s_pc' = [s_pc EXCEPT ![t] = IF send = "ok" THEN "clear"
                                                ELSE "run"]
    /\ UNCHANGED <<s_node, s_heap, s_time, s_cur, s_packets, s_raced>>
    /\ UNCHANGED notSequenceVars

\* deliver_to_cu / deliver_to_du: "self.pending_data = None"
S_DeliverClear(t) ==
    /\ s_pc[t] = "clear"
    /\ s_node' = [s_node EXCEPT ![s_cur[t].node].pending_data = Attr(None)]
    /\ s_pc' = [s_pc EXCEPT ![t] = "run"]
    /\ UNCHANGED <<s_heap, s_time, s_cur, s_packets, s_sends, s_raced>>
    /\ UNCHANGED notSequenceVars

----------------------------------------------------------------------------
(* sequence_tunnel_oran.py: two threads.  The handler thread runs           *)
(* handle_sctp_data: each turn of its loop reads the DU socket, then the CU *)
(* socket, and hands what it read to send_quantum_message, which schedules  *)
(* receive_quantum_message(data) on the partner node 1e6 later.  The        *)
(* simulation thread runs run_sequence_simulation: whenever the timeline    *)
(* has events it calls timeline.run(), which pops them one by one.          *)

\* "delivery_time = self.timeline.now() + 1e6"
O_DELAY == 1000000

\* SCTPQuantumNode.__init__
SCTPQuantumNode == [packets_sent |-> 0, packets_received |-> 0]

\* set_partner in main: QCU and QDU are each other's partner
O_Partner(node) == IF node = "QCU" THEN "QDU" ELSE "QCU"

\* receive_quantum_message: QDU forwards to the DU, QCU to the CU
O_Destination(node) == IF node = "QDU" THEN "DU" ELSE "CU"

\* what a select / recv pair of the handler thread does
O_Outcomes == {"idle", "data", "empty", "raise"}

\* no event is being processed
O_NoEvent == [time |-> 0, node |-> "-", data |-> <<>>, gid |-> 0]

\* one socket of handle_sctp_data up to timeline.schedule(event) in
\* send_quantum_message; to is the position of the handler when nothing
\* was read, counting the position before "self.packets_sent += 1"
O_HandleSocket(src, node, counting, to) ==
    /\ \E oc \in O_Outcomes :
         /\ oc = "data" => Len(o_packets) < O_MaxReads
         /\ IF oc = "data"
            THEN LET id == Len(o_packets) + 1
                 IN /\ o_packets' = Append(o_packets,
                                           [src |-> src, data |-> N_Payload(id)])
                    /\ o_heap' = HeapPush(o_heap,
                                          [time |-> o_time + O_DELAY,
                                           node |-> O_Partner(node),
                                           data |-> N_Payload(id),
                                           gid |-> id])
                    /\ o_pc' = [o_pc EXCEPT !["H"] = counting]
            ELSE /\ UNCHANGED <<o_packets, o_heap>>
                 /\ o_pc' = [o_pc EXCEPT !["H"] = to]
    /\ UNCHANGED <<o_time, o_cur, o_node, o_fired, o_sends>>
    /\ UNCHANGED notOranVars

\* handle_sctp_data: "Check for data from DU"
O_HandleDuData ==
    /\ o_pc["H"] = "du"
    /\ O_HandleSocket("DU", "QDU", "du_count", "cu")

\* send_quantum_message of the QDU node: "self.packets_sent += 1"
O_QduCountsSent ==
    /\ o_pc["H"] = "du_count"
    /\ o_node' = [o_node EXCEPT !["QDU"].packets_sent = @ + 1]
    /\ o_pc' = [o_pc EXCEPT !["H"] = "cu"]
    /\ UNCHANGED <<o_heap, o_time, o_cur, o_packets, o_fired, o_sends>>
    /\ UNCHANGED notOranVars

\* handle_sctp_data: "Check for data from CU"
O_HandleCuData ==
    /\ o_pc["H"] = "cu"
    /\ O_HandleSocket("CU", "QCU", "cu_count", "du")

\* send_quantum_message of the QCU node: "self.packets_sent += 1"
O_QcuCountsSent ==
    /\ o_pc["H"] = "cu_count"
    /\ o_node' = [o_node EXCEPT !["QCU"].packets_sent = @ + 1]
    /\ o_pc' = [o_pc EXCEPT !["H"] = "du"]
    /\ UNCHANGED <<o_heap, o_time, o_cur, o_packets, o_fired, o_sends>>
    /\ UNCHANGED notOranVars

\* run_sequence_simulation: "if timeline.events: timeline.run()"
O_RunSequenceSimulation ==
    /\ o_pc["S"] = "check"
    /\ o_heap # <<>>
    /\ o_pc' = [o_pc EXCEPT !["S"] = "run"]
    /\ UNCHANGED <<o_heap, o_time, o_cur, o_node, o_packets, o_fired, o_sends>>
    /\ UNCHANGED notOranVars

\* timeline.run(): "while len(self.events) > 0: event = self.events.pop();
\* self.time = event.time"; the timeline has no stop time
O_TimelineRun ==
    /\ o_pc["S"] = "run"
    /\ IF o_heap = <<>>
       THEN /\ o_pc' = [o_pc EXCEPT !["S"] = "check"]
            /\ UNCHANGED <<o_heap, o_time, o_cur, o_fired>>
       ELSE \E p \in {HeapPop(o_heap)} :
              /\ o_heap' = p.heap
              /\ o_time' = p.item.time
              /\ o_cur' = p.item
              /\ o_fired' = Append(o_fired, p.item)
              /\ o_pc' = [o_pc EXCEPT !["S"] = "fire"]
    /\ UNCHANGED <<o_node, o_packets, o_sends>>
    /\ UNCHANGED notOranVars

\* forward_to_du / forward_to_cu that let the error of send escape, up to
\* "except Exception ... break" of run_sequence_simulation
O_AfterForwardUncaught(result) == IF result = "raise" THEN "stopped" ELSE "run"

\* where the simulation thread is after forward_to_du / forward_to_cu:
\* "except Exception as e: logger.error(...)" inside them, so back in the
\* loop of timeline.run whatever send did
O_AfterForward(result) == "run"

\* event.process.run(): receive_quantum_message(data) on the partner node,
\* then forward_to_du / forward_to_cu, whose send may raise (caught, logged)
O_ReceiveQuantumMessage ==
    /\ o_pc["S"] = "fire"
    /\ \E result \in {"ok", "raise"} :
         /\ o_sends' = Append(o_sends, [to |-> O_Destination(o_cur.node),
                                        data |-> o_cur.data,
                                        gid |-> o_cur.gid,
                                        result |-> result])
         /\ o_pc' = [o_pc EXCEPT !["S"] = O_AfterForward(result)]
    /\ o_node' = [o_node EXCEPT ![o_cur.node].packets_received = @ + 1]
    /\ o_cur' = O_NoEvent
    /\ UNCHANGED <<o_heap, o_time, o_packets, o_fired>>
    /\ UNCHANGED notOranVars

----------------------------------------------------------------------------
(* sctp_tunnel.py: main starts two threads running receive_and_forward,     *)
(* thread "DU" reading du_conn and sending to cu_client_socket, thread "CU" *)
(* reading cu_client_socket and sending to du_conn, and joins them.         *)

\* what conn.recv does: data, b"" (the peer closed) or an exception
K_RecvOutcomes == {"data", "empty", "raise"}

\* "except Exception as e: print(...); break"
K_AfterError == "done"

\* receive_and_forward that sends what it read without the delay
K_AfterRecvNoDelay == "send"

\* "if data:" is followed by the print and "time.sleep(DELAY_SEC)"
K_AfterRecv == "sleep"

\* receive_and_forward: "data = conn.recv(BUFFER_SIZE)"; "if data:"
K_Recv(t) ==
    /\ k_pc[t] = "recv"
    /\ \E oc \in K_RecvOutcomes, d \in PacketSet :
         \* a failed endpoint gives no more data
         /\ t \in k_failed => oc = "raise"
         /\ oc = "data" => Len(k_reads[t]) < K_MaxReads
         /\ oc = "empty" => k_empty[t] < K_MaxReads
         /\ CASE oc = "data" ->
                   /\ k_reads' = [k_reads EXCEPT ![t] = Append(@, d)]
                   /\ k_pc' = [k_pc EXCEPT ![t] = K_AfterRecv]
                   /\ k_log' = [k_log EXCEPT ![t] = Append(@, "recv")]
                   /\ UNCHANGED <<k_failed, k_empty>>
              [] oc = "empty" ->
                   /\ k_empty' = [k_empty EXCEPT ![t] = @ + 1]
                   /\ UNCHANGED <<k_reads, k_pc, k_failed, k_log>>
              [] oc = "raise" ->
                   /\ k_failed' = k_failed \cup {t}
                   /\ k_pc' = [k_pc EXCEPT ![t] = K_AfterError]
                   /\ UNCHANGED <<k_reads, k_empty, k_log>>
    /\ UNCHANGED <<k_sends, k_joined>>
    /\ UNCHANGED notSctpVars

\* receive_and_forward: "time.sleep(DELAY_SEC)"
K_Sleep(t) ==
    /\ k_pc[t] = "sleep"
    /\ k_pc' = [k_pc EXCEPT ![t] = "send"]
    /\ k_log' = [k_log EXCEPT ![t] = Append(@, "sleep")]
    /\ UNCHANGED <<k_reads, k_sends, k_failed, k_empty, k_joined>>
    /\ UNCHANGED notSctpVars

\* receive_and_forward: "forward_conn.send(data)", the data read last
K_Send(t) ==
    /\ k_pc[t] = "send"
    /\ \E result \in {"ok", "raise"} :
         \* a send to a failed endpoint raises
         /\ Other(t) \in k_failed => result = "raise"
         /\ k_sends' = [k_sends EXCEPT ![t] =
                           Append(@, [data |-> k_reads[t][Len(k_reads[t])],
                                      result |-> result])]
         /\ IF result = "raise"
            THEN /\ k_failed' = k_failed \cup {Other(t)}
                 /\ k_pc' = [k_pc EXCEPT ![t] = K_AfterError]
            ELSE /\ k_pc' = [k_pc EXCEPT ![t] = "recv"]
                 /\ UNCHANGED k_failed
    /\ k_log' = [k_log EXCEPT ![t] = Append(@, "send")]
    /\ UNCHANGED <<k_reads, k_empty, k_joined>>
    /\ UNCHANGED notSctpVars

\* main: thread1.join(); thread2.join()
K_MainJoins ==
    /\ ~k_joined
    /\ \A t \in {"DU", "CU"} : k_pc[t] = "done"
    /\ k_joined' = TRUE
    /\ UNCHANGED <<k_pc, k_reads, k_sends, k_failed, k_empty, k_log>>
    /\ UNCHANGED notSctpVars

----------------------------------------------------------------------------
(* mytunnel2.py and mytunnel2_testtunnel.py: the threads handle_du and      *)
(* handle_cu read the two sockets and hand every payload to the QuNetSim    *)
(* host of their side, which sends it to the host of the other side; that   *)
(* host's _process_packet passes the content to its processing function,    *)
(* qcu_to_cu for the host "CU" and qdu_to_du for the host "DU".             *)

Programs == {"mytunnel2", "mytunnel2_testtunnel"}

\* the socket that the processing function of a host writes to: qcu_to_cu
\* and qdu_to_du
Q_ProcessingSocket(program, host) ==
    IF program = "mytunnel2"
    THEN (IF host = "CU" THEN "CU" ELSE "DU")
    ELSE (IF host = "CU" THEN "DU" ELSE "CU")

\* what recv returns: a payload or b""; the handlers do not test it
Q_Payloads == PacketSet \cup {<<>>}

\* handle_du / handle_cu: "payload = <socket>.recv(BUFFER_SIZE)" and
\* "<host>.send_classical(<other host>, payload, ...)"; an exception of recv
\* ends the thread
Q_Handle(sock) ==
    /\ \E oc \in {"data", "raise"}, payload \in Q_Payloads :
         /\ oc = "data" => Len(q_reads) < Q_MaxReads
         /\ oc = "raise" => payload = <<>>
         /\ IF oc = "data"
            THEN LET id == Len(q_reads) + 1
                 IN /\ q_reads' = Append(q_reads, [sock |-> sock,
                                                   data |-> payload])
                    /\ q_net' = q_net \cup {[sender |-> sock,
                                             receiver |-> Other(sock),
                                             content |-> payload, id |-> id]}
                    /\ UNCHANGED q_pc
            ELSE /\ q_pc' = [q_pc EXCEPT ![sock] = "dead"]
                 /\ UNCHANGED <<q_reads, q_net>>
    /\ UNCHANGED <<q_program, q_writes>>
    /\ UNCHANGED notQunetVars

\* handle_du
Q_HandleDu ==
    /\ q_pc["DU"] = "recv"
    /\ Q_Handle("DU")

\* handle_cu
Q_HandleCu ==
    /\ q_pc["CU"] = "recv"
    /\ Q_Handle("CU")

\* HostMod._process_packet on the host that receives a message: the content
\* goes to the processing function, which calls sendall on its socket
Q_ProcessPacket ==
    /\ \E msg \in q_net :
         /\ q_net' = q_net \ {msg}
         /\ q_writes' = Append(q_writes,
                [sock |-> Q_ProcessingSocket(q_program, msg.receiver),
                 from |-> q_reads[msg.id].sock,
                 data |-> msg.content, id |-> msg.id])
    /\ UNCHANGED <<q_program, q_pc, q_reads>>
    /\ UNCHANGED notQunetVars

----------------------------------------------------------------------------
(* setup_keypair and establish_shared_secret as functions of the manager    *)
(* and their arguments: a manager of either class and role, and a sequence  *)
(* of calls with any arguments and any outcome of the KEM operations        *)

\* the values passed as client_public_key and server_ciphertext
E_Arguments == {None, Some(<<>>), Some(<<200>>)}

\* setup_keypair of the manager's class
CallSetupKeypair(self, kg) ==
    IF "counter" \in DOMAIN self THEN T_SetupKeypair(self, kg)
    ELSE SetupKeypair(self, kg)

\* establish_shared_secret of the manager's class
CallEstablishSharedSecret(self, client_public_key, server_ciphertext, enc, dec) ==
    IF "counter" \in DOMAIN self
    THEN T_EstablishSharedSecret(self, client_public_key, server_ciphertext,
                                 enc, dec)
    ELSE EstablishSharedSecret(self, client_public_key, server_ciphertext,
                               enc, dec)

E_NoCall == [op |-> "", before |-> <<>>, ret |-> None, raised |-> FALSE,
             client_public_key |-> None, server_ciphertext |-> None,
             kem_raised |-> FALSE]

\* a call of setup_keypair
E_SetupKeypair ==
    /\ e_calls < E_MaxCalls
    /\ \E kg \in KeygenOutcomes :
         \E r \in {CallSetupKeypair(e_mgr, kg)} :
            /\ e_mgr' = r.self
            /\ e_call' = [E_NoCall EXCEPT !.op = "setup_keypair",
                                          !.before = e_mgr, !.ret = r.ret,
                                          !.raised = r.raised]
    /\ e_calls' = e_calls + 1
    /\ UNCHANGED notKemVars

\* a call of establish_shared_secret
E_EstablishSharedSecret ==
    /\ e_calls < E_MaxCalls
    /\ \E pk \in E_Arguments, ct \in E_Arguments,
          enc \in EncapOutcomes, dec \in DecapOutcomes :
         \* the outcome of the operation that is not called is drawn once
         /\ (~e_mgr.is_server \/ ~Truthy(pk)) => enc.kind = "raise"
         /\ (e_mgr.is_server \/ ~Truthy(ct)) => dec.kind = "raise"
         /\ \E r \in {CallEstablishSharedSecret(e_mgr, pk, ct, enc, dec)} :
              /\ e_mgr' = r.self
              /\ e_call' = [E_NoCall EXCEPT
                              !.op = "establish_shared_secret",
                              !.before = e_mgr, !.ret = r.ret,
                              !.client_public_key = pk,
                              !.server_ciphertext = ct,
                              !.kem_raised =
                                  IF e_mgr.is_server THEN enc.kind = "raise"
                                  ELSE (dec.kind = "raise"
                                        \/ ~e_mgr.kem_instance)]
    /\ e_calls' = e_calls + 1
    /\ UNCHANGED notKemVars

----------------------------------------------------------------------------
(* Initial states *)

\* main: both sockets connected and non-blocking, SCTPEventHandler.__init__
\* schedules the first poll after POLL_INTERVAL and the handshake now
TunnelInit ==
    /\ tunnel_ready = FALSE
    /\ qcu_pqc = PQCManager("QCU", TRUE)
    /\ qdu_pqc = PQCManager("QDU", FALSE)
    /\ cu_client_socket = ConnectedSocket
    /\ du_conn = ConnectedSocket
    /\ now = 0
    /\ events = Schedule(ReschedulePoll(<<>>, 0),
                         Event("Init", InitEventTime, "-", <<>>))
    /\ byteorder \in {"little", "big"}
    /\ nread = 0
    /\ blocked = {}
    /\ ever = [protected |-> FALSE, data_tx |-> FALSE, written |-> FALSE]
    /\ ready_writes = 0
    /\ accept_queue = 0
    /\ trace = EmptyTrace

TunnelIdle ==
    /\ tunnel_ready = FALSE
    /\ qcu_pqc = PQCManager("QCU", TRUE)
    /\ qdu_pqc = PQCManager("QDU", FALSE)
    /\ cu_client_socket = ConnectedSocket
    /\ du_conn = ConnectedSocket
    /\ now = 0
    /\ events = <<>>
    /\ byteorder = "little"
    /\ nread = 0
    /\ blocked = {}
    /\ ever = [protected |-> FALSE, data_tx |-> FALSE, written |-> FALSE]
    /\ ready_writes = 0
    /\ accept_queue = 0
    /\ trace = EmptyTrace

\* main of the testing tunnel after setup_sctp_connections
TestingInit ==
    /\ t_pc = "start"
    /\ t_qcu = T_PQCManager("QCU", FALSE)
    /\ t_qdu = T_PQCManager("QDU", TRUE)
    /\ t_iter = 0
    /\ t_trace = T_EmptyTrace
    /\ t_closed = {}

TestingIdle ==
    /\ t_pc = "idle"
    /\ t_qcu = T_PQCManager("QCU", FALSE)
    /\ t_qdu = T_PQCManager("QDU", TRUE)
    /\ t_iter = 0
    /\ t_trace = T_EmptyTrace
    /\ t_closed = {}

\* two managers of one of the two classes holding the same shared_secret
CipherInit ==
    /\ c_pc = "start"
    /\ \E s \in CipherSecrets :
         c_mgr \in
           {<<[PQCManager("QCU", TRUE) EXCEPT !.shared_secret = s],
              [PQCManager("QDU", FALSE) EXCEPT !.shared_secret = s]>>,
            <<[T_PQCManager("QCU", FALSE) EXCEPT !.shared_secret = s],
              [T_PQCManager("QDU", TRUE) EXCEPT !.shared_secret = s]>>}
    /\ c_data \in DataSet
    /\ c_call1 = NoCall
    /\ c_call2 = NoCall
    /\ c_call3 = NoCall

CipherIdle ==
    /\ c_pc = "idle"
    /\ c_mgr = <<>>
    /\ c_data = <<>>
    /\ c_call1 = NoCall
    /\ c_call2 = NoCall
    /\ c_call3 = NoCall

\* netsquid_tunnel.py after the module's set-up: SCTPEventHandler.__init__
\* has scheduled the first poll
NetsquidInit ==
    /\ n_events = <<N_Event("Poll", N_POLL_INTERVAL, None, 0)>>
    /\ n_now = 0
    /\ n_qcu = QCUNode
    /\ n_qdu = QDUNode
    /\ n_polls = 0
    /\ n_packets = <<>>
    /\ n_log = <<>>

\* what a pending slot of a node can hold: never assigned, cleared by a
\* processing event, or assigned by process_cu_message / process_du_message
N_PendingValues == {Unset, Attr(None), Attr(Some(N_Payload(1)))}

\* the processing events that are scheduled, one or two of them
N_ProcessEvents ==
    LET types == {"ProcessCU", "ProcessDU"}
    IN {<<N_Event(a, QcuProcessDelay, None, 0)>> : a \in types}
       \cup {<<N_Event(a, QcuProcessDelay, None, 0),
               N_Event(b, 2 * QcuProcessDelay, None, 0)>> :
                   a \in types, b \in types}

\* the event handlers of QCUNode and QDUNode as functions of the node they
\* run on: any contents of the pending slots, and processing events to fire
NetsquidHandlersInit ==
    /\ n_events \in N_ProcessEvents
    /\ n_now = 0
    /\ \E v \in N_PendingValues : n_qcu = [QCUNode EXCEPT !.pending_cu_data = v]
    /\ \E v \in N_PendingValues : n_qdu = [QDUNode EXCEPT !.pending_du_data = v]
    /\ n_polls = 0
    /\ n_packets = <<>>
    /\ n_log = <<>>

NetsquidIdle ==
    /\ n_events = <<>>
    /\ n_now = 0
    /\ n_qcu = QCUNode
    /\ n_qdu = QDUNode
    /\ n_polls = 0
    /\ n_packets = <<>>
    /\ n_log = <<>>

\* sequence_tunnel.py after main started the threads
SequenceInit ==
    /\ s_pc = [t \in Threads |-> IF t = "H" THEN "cu" ELSE "check"]
    /\ s_cur = [t \in Threads |-> [time |-> 0, node |-> "-", gid |-> 0]]
    /\ s_heap = <<>>
    /\ s_time = 0
    /\ s_node = [n \in {"QCU", "QDU"} |-> QuantumTunnelNode]
    /\ s_packets = <<>>
    /\ s_sends = <<>>
    /\ s_raced = FALSE

SequenceIdle ==
    /\ s_pc = [t \in Threads |-> "idle"]
    /\ s_cur = [t \in Threads |-> [time |-> 0, node |-> "-", gid |-> 0]]
    /\ s_heap = <<>>
    /\ s_time = 0
    /\ s_node = [n \in {"QCU", "QDU"} |-> QuantumTunnelNode]
    /\ s_packets = <<>>
    /\ s_sends = <<>>
    /\ s_raced = FALSE

\* sequence_tunnel_oran.py after main started the threads
OranInit ==
    /\ o_pc = [t \in Threads |-> IF t = "H" THEN "du" ELSE "check"]
    /\ o_heap = <<>>
    /\ o_time = 0
    /\ o_cur = O_NoEvent
    /\ o_node = [n \in {"QCU", "QDU"} |-> SCTPQuantumNode]
    /\ o_packets = <<>>
    /\ o_fired = <<>>
    /\ o_sends = <<>>

OranIdle ==
    /\ o_pc = [t \in Threads |-> "idle"]
    /\ o_heap = <<>>
    /\ o_time = 0
    /\ o_cur = O_NoEvent
    /\ o_node = [n \in {"QCU", "QDU"} |-> SCTPQuantumNode]
    /\ o_packets = <<>>
    /\ o_fired = <<>>
    /\ o_sends = <<>>

\* sctp_tunnel.py after main started the threads
SctpInit ==
    /\ k_pc = [t \in {"DU", "CU"} |-> "recv"]
    /\ k_reads = [t \in {"DU", "CU"} |-> <<>>]
    /\ k_sends = [t \in {"DU", "CU"} |-> <<>>]
    /\ k_failed = {}
    /\ k_empty = [t \in {"DU", "CU"} |-> 0]
    /\ k_joined = FALSE
    /\ k_log = [t \in {"DU", "CU"} |-> <<>>]

SctpIdle ==
    /\ k_pc = [t \in {"DU", "CU"} |-> "idle"]
    /\ k_reads = [t \in {"DU", "CU"} |-> <<>>]
    /\ k_sends = [t \in {"DU", "CU"} |-> <<>>]
    /\ k_failed = {}
    /\ k_empty = [t \in {"DU", "CU"} |-> 0]
    /\ k_joined = FALSE
    /\ k_log = [t \in {"DU", "CU"} |-> <<>>]

\* mytunnel2.py or mytunnel2_testtunnel.py after the two threads started
QunetInit ==
    /\ q_program \in Programs
    /\ q_pc = [t \in {"DU", "CU"} |-> "recv"]
    /\ q_net = {}
    /\ q_reads = <<>>
    /\ q_writes = <<>>

QunetIdle ==
    /\ q_program = "mytunnel2"
    /\ q_pc = [t \in {"DU", "CU"} |-> "idle"]
    /\ q_net = {}
    /\ q_reads = <<>>
    /\ q_writes = <<>>

\* a manager as its constructor leaves it, of either class and role
KemInit ==
    /\ e_mgr \in {PQCManager("QCU", TRUE), PQCManager("QDU", FALSE),
                  T_PQCManager("QCU", FALSE), T_PQCManager("QDU", TRUE)}
    /\ e_call = E_NoCall
    /\ e_calls = 0

KemIdle ==
    /\ e_mgr = PQCManager("QCU", TRUE)
    /\ e_call = E_NoCall
    /\ e_calls = 0

\* the programs that are not running
Idle(v) ==
    /\ "tunnel" \notin v => TunnelIdle
    /\ "testing" \notin v => TestingIdle
    /\ "cipher" \notin v => CipherIdle
    /\ "netsquid" \notin v => NetsquidIdle
    /\ "sequence" \notin v => SequenceIdle
    /\ "oran" \notin v => OranIdle
    /\ "sctp" \notin v => SctpIdle
    /\ "qunet" \notin v => QunetIdle
    /\ "kem" \notin v => KemIdle

Init == TunnelInit /\ Idle({"tunnel"})

Next == InitializePqc \/ PollSctpMessages \/ HandleMessage \/ DuReconnects

Spec == Init /\ [][Next]_vars

TestingNext == T_Main \/ T_LoopIteration \/ T_Interrupt

InitTesting == TestingInit /\ Idle({"testing"})

SpecTesting == InitTesting /\ [][TestingNext]_vars

CipherNext == C_First \/ C_Second \/ C_Third

InitCipher == CipherInit /\ Idle({"cipher"})

SpecCipher == InitCipher /\ [][CipherNext]_vars

NetsquidNext ==
    \/ N_PollSctpMessages
    \/ N_QuantumProcessCuMessage
    \/ N_QuantumProcessDuMessage
    \/ N_HandleMessageFromQcu
    \/ N_HandleMessageFromQdu
    \/ N_ForwardToDu
    \/ N_ForwardToCu

InitNetsquid == NetsquidInit /\ Idle({"netsquid"})

SpecNetsquid == InitNetsquid /\ [][NetsquidNext]_vars

NetsquidHandlersNext ==
    \/ N_QuantumProcessCuMessage
    \/ N_QuantumProcessDuMessage
    \/ N_HandleMessageFromQcu
    \/ N_HandleMessageFromQdu
    \/ N_ForwardToDu
    \/ N_ForwardToCu

InitNetsquidHandlers == NetsquidHandlersInit /\ Idle({"netsquid"})

SpecNetsquidHandlers == InitNetsquidHandlers /\ [][NetsquidHandlersNext]_vars

SequenceNext ==
    \/ S_HandleCuData
    \/ S_HandleDuData
    \/ S_HandlerChecksTimeline
    \/ S_RunSequenceSimulation
    \/ \E t \in Threads : S_TimelineRun(t)
    \/ \E t \in Threads : S_DeliverSend(t)
    \/ \E t \in Threads : S_DeliverClear(t)

InitSequence == SequenceInit /\ Idle({"sequence"})

SpecSequence == InitSequence /\ [][SequenceNext]_vars

OranNext ==
    \/ O_HandleDuData
    \/ O_QduCountsSent
    \/ O_HandleCuData
    \/ O_QcuCountsSent
    \/ O_RunSequenceSimulation
    \/ O_TimelineRun
    \/ O_ReceiveQuantumMessage

InitOran == OranInit /\ Idle({"oran"})

SpecOran == InitOran /\ [][OranNext]_vars

SctpNext ==
    \/ \E t \in {"DU", "CU"} : K_Recv(t)
    \/ \E t \in {"DU", "CU"} : K_Sleep(t)
    \/ \E t \in {"DU", "CU"} : K_Send(t)
    \/ K_MainJoins

InitSctp == SctpInit /\ Idle({"sctp"})

SpecSctp == InitSctp /\ [][SctpNext]_vars

QunetNext == Q_HandleDu \/ Q_HandleCu \/ Q_ProcessPacket

InitQunet == QunetInit /\ Idle({"qunet"})

SpecQunet == InitQunet /\ [][QunetNext]_vars

KemNext == E_SetupKeypair \/ E_EstablishSharedSecret

InitKem == KemInit /\ Idle({"kem"})

SpecKem == InitKem /\ [][KemNext]_vars

----------------------------------------------------------------------------
(* Properties of netsquid_tunnel_PQC_tunnel.py (Spec) *)

\* the socket writes and write attempts of the handler that ran last
Sends == {trace.sends[i] : i \in DOMAIN trace.sends}
Reads == {trace.reads[i] : i \in DOMAIN trace.reads}

\* no Init event is pending: initialize_pqc has run
HandshakeDone == \A i \in DOMAIN events : events[i].type # "Init"

\* C1: while tunnel_ready is false nothing is written to a socket, and a
\* packet blocked by the gate is never written: every write belongs to a
\* packet read by the same handler while tunnel_ready was true, and no write
\* carries the id of a blocked packet.
C1_GateBlocksAndDoesNotQueue ==
    /\ ~tunnel_ready => (Sends = {} /\ ~ever.written)
    /\ \A s \in Sends :
         /\ s.id \notin blocked
         /\ \E r \in Reads : r.id = s.id /\ r.ready
    /\ \A r \in Reads : ~r.ready => r.id \in blocked

\* C1 witness: two packets were read and blocked in two different polls
C1_Witness ==
    /\ ~tunnel_ready
    /\ blocked = {1, 2}
    /\ trace.handler = "poll"
    /\ Len(trace.reads) = 1

\* C3: while tunnel_ready is false no data-plane packet has been passed to
\* protect_data and none was handed to the channel by tx_output: at most the
\* two handshake messages were transmitted.
C3_NoCipherNoChannelBeforeReady ==
    ~tunnel_ready =>
        /\ ~ever.protected
        /\ ~ever.data_tx
        /\ trace.protects = <<>>
        /\ \A i \in DOMAIN trace.txs : trace.txs[i].kind = "handshake"
        /\ Len(SelectSeq(events, LAMBDA e : e.type = "Deliver")) <= 2

\* C3 witness: the handshake ended in a digest mismatch, so both managers
\* hold a secret, and a packet from each socket was read and blocked
C3_Witness ==
    /\ ~tunnel_ready
    /\ Truthy(qcu_pqc.shared_secret)
    /\ Truthy(qdu_pqc.shared_secret)
    /\ Len(trace.reads) = 2
    /\ blocked = {1, 2}

C5_FailedHandshakeIsFinal ==
    [][(HandshakeDone /\ ~tunnel_ready) => (HandshakeDone' /\ ~tunnel_ready')]_vars

\* C5 witness: the digests differed, and packets were read in a later poll
C5_Witness ==
    /\ HandshakeDone
    /\ ~tunnel_ready
    /\ Truthy(qcu_pqc.shared_secret)
    /\ Truthy(qdu_pqc.shared_secret)
    /\ HexDigest8(qcu_pqc.shared_secret.v) # HexDigest8(qdu_pqc.shared_secret.v)
    /\ trace.handler = "poll"
    /\ nread >= 1

\* C6: tunnel_ready is assigned true at most once and, once true, stays
\* true through every later event.
C6_ReadyIsMonotone ==
    [][(tunnel_ready => tunnel_ready') /\ ready_writes' <= 1]_vars

\* C6 witness: tunnel_ready is true after a poll in which a write to the DU
\* socket failed and the DU socket was then closed on an empty read
C6_Witness ==
    /\ tunnel_ready
    /\ trace.handler = "poll"
    /\ ~IsValid(du_conn)
    /\ \E s \in Sends : s.result = "raise"

\* the three key-encapsulation operations succeeded and decapsulation
\* returned the secret that encapsulation produced
KemCorrect ==
    /\ trace.kem.kg = "ok"
    /\ trace.kem.enc = "ok"
    /\ trace.kem.dec = "ok"
    /\ trace.kem.same

\* C7: when the key encapsulation is correct, initialize_pqc ends with the
\* same secret and equal digests on both sides and tunnel_ready true.
C7_CorrectKemGivesReady ==
    (trace.handler = "init" /\ KemCorrect) =>
        /\ tunnel_ready
        /\ Truthy(qcu_pqc.shared_secret)
        /\ qcu_pqc.shared_secret = qdu_pqc.shared_secret
        /\ HexDigest8(qcu_pqc.shared_secret.v) = HexDigest8(qdu_pqc.shared_secret.v)

\* C7 witness: initialize_pqc has just run with a correct key encapsulation
C7_Witness ==
    /\ trace.handler = "init"
    /\ KemCorrect
    /\ ready_writes = 1

\* C10: every byte sequence handed to a socket write is the byte sequence
\* read for that packet, and goes to the socket opposite to the one it was
\* read from.
C10_DestinationGetsPlaintext ==
    \A s \in Sends :
        \E r \in Reads :
            /\ r.id = s.id
            /\ s.data = r.data
            /\ s.dst = Other(r.sock)

\* C10 witness: one poll forwarded a three-byte packet in each direction
C10_Witness ==
    /\ Len(trace.sends) = 2
    /\ trace.sends[1].dst = "DU" /\ trace.sends[1].result # "raise"
    /\ trace.sends[2].dst = "CU" /\ trace.sends[2].result # "raise"
    /\ Len(trace.sends[1].data) = 3

Closes(t) == {t.closes[i] : i \in DOMAIN t.closes}

\* the packets of the handler run t whose decrypted bytes differ from the
\* bytes that were read
Mismatched(t) ==
    {t.protects[i].id : i \in
        {j \in DOMAIN t.protects :
            /\ t.protects[j].direction = "Decrypted"
            /\ t.protects[j].ret.some
            /\ \E k \in DOMAIN t.reads :
                  /\ t.reads[k].id = t.protects[j].id
                  /\ t.reads[k].data # t.protects[j].ret.v}}

\* C12: a packet whose decrypted bytes differ from the bytes read is dropped:
\* the handler makes no write attempt for it, and tunnel_ready and the two
\* shared secrets are what they were before the handler ran.
C12_MismatchDropsPacket ==
    [][\A id \in Mismatched(trace') :
          /\ \A i \in DOMAIN trace'.sends : trace'.sends[i].id # id
          /\ tunnel_ready' = tunnel_ready
          /\ qcu_pqc'.shared_secret = qcu_pqc.shared_secret
          /\ qdu_pqc'.shared_secret = qdu_pqc.shared_secret]_vars

\* C12 witness: the tunnel is ready with two different secrets, a poll read
\* a packet whose decryption differed, and nothing was written
C12_Witness ==
    /\ tunnel_ready
    /\ trace.handler = "poll"
    /\ Mismatched(trace) # {}
    /\ trace.error = "Data integrity check failed"
    /\ Sends = {}

\* C13: a write to a socket happens only in the handler of the channel's
\* delayed delivery, never in the poll handler that read the packet.
C13_WriteOnlyAfterChannelDelivery ==
    \A s \in Sends :
        /\ trace.handler = "message"
        /\ ~\E r \in Reads : r.id = s.id

PacketsFor(t, sock) ==
    {t.reads[i].id : i \in {j \in DOMAIN t.reads :
                               t.reads[j].ready /\ t.reads[j].sock = Other(sock)}}

\* C21: a write is attempted on a socket only while it is connected: a
\* socket that was closed after an empty read or a connection error, in an
\* earlier poll or earlier in the same poll, gets no send; the packets read
\* for it are dropped, no exception is logged for them, and the poll is
\* scheduled again.
C21_NoWriteOnClosedSocket ==
    [][\A sock \in {"CU", "DU"} :
          LET before == IF sock = "CU" THEN cu_client_socket ELSE du_conn
              closed_first == sock = "CU" /\ \E c \in Closes(trace') : c.sock = "CU"
          IN (~IsValid(before) \/ closed_first) =>
                /\ \A i \in DOMAIN trace'.sends : trace'.sends[i].dst # sock
                /\ PacketsFor(trace', sock) # {} =>
                      /\ trace'.error # "Transfer error"
                      /\ \E i \in DOMAIN events' : events'[i].type = "Poll"]_vars

\* C21 witness: the CU socket was closed in an earlier poll; the last poll
\* read a packet from the DU with the tunnel ready, decrypted it and wrote
\* nothing
C21_Witness ==
    /\ tunnel_ready
    /\ trace.handler = "poll"
    /\ ~cu_client_socket.open
    /\ trace.closes = <<>>
    /\ PacketsFor(trace, "CU") # {}
    /\ Len(trace.protects) = 2
    /\ Mismatched(trace) = {}
    /\ Sends = {}

\* the pending poll events
PendingPolls == {i \in DOMAIN events : events[i].type = "Poll"}

\* something failed in the handler run t: a select or read error, a packet
\* blocked or dropped, a failed send, a closed connection
PollFailures(t) ==
    (IF t.error # "" THEN {t.error} ELSE {})
    \cup (IF t.closes # <<>> THEN {"closed"} ELSE {})
    \cup (IF t.selected = {} THEN {"no valid sockets"} ELSE {})
    \cup (IF \E i \in DOMAIN t.reads : ~t.reads[i].ready
          THEN {"blocked"} ELSE {})
    \cup (IF \E i \in DOMAIN t.sends : t.sends[i].result = "raise"
          THEN {"send failed"} ELSE {})

\* C22: exactly one poll event is pending in every state, and every run of
\* poll_sctp_messages, whatever failed in it, consumes the pending poll event
\* and schedules the next one POLL_INTERVAL later.
C22_OnePollAlwaysPending ==
    /\ Cardinality(PendingPolls) = 1
    /\ trace.handler = "poll" =>
          \E i \in PendingPolls :
              events[i].time = now + (POLL_INTERVAL * 1000)

\* C22 witness: both sockets were closed earlier, the last poll found no
\* valid socket, and the next poll is pending
C22_Witness ==
    /\ trace.handler = "poll"
    /\ "no valid sockets" \in PollFailures(trace)
    /\ ~cu_client_socket.open /\ ~du_conn.open
    /\ Cardinality(PendingPolls) = 1

\* C24: a new DU connection that arrived after the DU connection failed is
\* accepted by the next poll, and packets then flow from it under the
\* tunnel_ready flag and the secrets of the first handshake.
C24_ReconnectIsAccepted ==
    [][(trace'.handler = "poll" /\ accept_queue = 1) =>
          /\ accept_queue' = 0
          /\ IsValid(du_conn')
          /\ tunnel_ready' = tunnel_ready
          /\ qcu_pqc'.shared_secret = qcu_pqc.shared_secret
          /\ qdu_pqc'.shared_secret = qdu_pqc.shared_secret]_vars

\* C26: the shared_secret of a manager is written at most once: it changes
\* only from None, only in initialize_pqc, and never in a state in which
\* tunnel_ready is true; the data plane leaves both secrets as they are.
C26_SecretWrittenOnceInHandshake ==
    [][\A m \in {"QCU", "QDU"} :
          LET before == IF m = "QCU" THEN qcu_pqc ELSE qdu_pqc
              after == IF m = "QCU" THEN qcu_pqc' ELSE qdu_pqc'
          IN after.shared_secret # before.shared_secret =>
                /\ before.shared_secret = None
                /\ trace'.handler = "init"
                /\ ~tunnel_ready]_vars

\* C26 witness: after a successful handshake a poll encrypted and decrypted
\* a packet with the two managers, which still hold their secrets
C26_Witness ==
    /\ tunnel_ready
    /\ trace.handler = "poll"
    /\ Len(trace.protects) = 2
    /\ nread = 2
    /\ qcu_pqc.shared_secret.some /\ qdu_pqc.shared_secret.some

\* C27: in every state after the handshake has derived the secrets, the
\* public key stored by the initiator is no longer held, and both managers
\* hold their shared secret.
C27_HandshakeArtifactsNotRetained ==
    (HandshakeDone /\ qdu_pqc.shared_secret.some) =>
        /\ qdu_pqc.public_key = None
        /\ qcu_pqc.public_key = None
        /\ qcu_pqc.shared_secret.some

\* C28: every data-plane unit handed to the channel is the 4-byte
\* big-endian encoding of the payload tag of its packet followed by the
\* ciphertext of that packet.
C28_UnitIsBigEndianTagThenCiphertext ==
    \A i \in DOMAIN trace.txs :
        trace.txs[i].kind = "data" =>
            LET items == trace.txs[i].items
            IN \E r \in Reads :
                 /\ r.sock = trace.txs[i].from
                 /\ Len(items) >= 4
                 /\ UnpackI("big", SubSeq(items, 1, 4)) = r.ppid
                 /\ \E j \in DOMAIN trace.protects :
                       /\ trace.protects[j].id = r.id
                       /\ trace.protects[j].direction = "Encrypted"
                       /\ trace.protects[j].ret = Some(SubSeq(items, 5, Len(items)))

\* C29: the payload tag passed to _send_with_ppid for a packet is the tag
\* obtained when the packet was read, and that tag is F1AP_PPID when the
\* read conveyed none (no matching ancillary item, or the recv fallback).
C29_SendTagIsReadTag ==
    \A s \in Sends :
        \E r \in Reads :
            /\ r.id = s.id
            /\ s.ppid = r.ppid
            /\ ~r.conveyed => s.ppid = F1AP_PPID

\* C29 witness: on a little-endian host one poll forwarded a packet read
\* with a conveyed tag and a packet read without one
C29_Witness ==
    /\ byteorder = "little"
    /\ Len(trace.sends) = 2
    /\ \E r \in Reads : r.conveyed /\ r.ppid # F1AP_PPID
                        /\ \E s \in Sends : s.id = r.id /\ s.ppid = r.ppid
    /\ \E r \in Reads : ~r.conveyed
                        /\ \E s \in Sends : s.id = r.id /\ s.ppid = F1AP_PPID

\* C39: after a poll in which _process_data_through_pqc attempted a write,
\* the destination socket of that write is in non-blocking mode again, also
\* when the write raised.
C39_DestinationBackToNonBlocking ==
    \A s \in Sends :
        LET sk == IF s.dst = "CU" THEN cu_client_socket ELSE du_conn
        IN ~sk.blocking

\* C34: initialize_pqc has fired and finished before any poll runs, so
\* before any data-plane packet is read.
C34_HandshakeBeforeFirstPoll ==
    (trace.handler = "poll" \/ nread > 0 \/ blocked # {}) => HandshakeDone

\* C34 witness: the first poll, at POLL_INTERVAL, read a packet after the
\* handshake had run
C34_Witness ==
    /\ trace.handler = "poll"
    /\ now = POLL_INTERVAL * 1000
    /\ nread = 1
    /\ Len(trace.reads) = 1
    /\ HandshakeDone

\* C20: after a write to a destination socket failed, that socket is closed
\* and its global cleared, as after a failed read.
C20_WriteFailureClosesDestination ==
    \A s \in Sends :
        s.result = "raise" =>
            LET sk == IF s.dst = "CU" THEN cu_client_socket ELSE du_conn
            IN ~sk.open /\ ~sk.ref

----------------------------------------------------------------------------
(* Properties of netsquid_tunnel_PQC_testing.py (SpecTesting) *)

T_Sends == {t_trace.sends[i] : i \in DOMAIN t_trace.sends}

\* C2: a packet read while the manager of its direction holds no shared
\* secret is dropped: nothing is sent for it.
C2_DroppedWithoutSecret ==
    \A s \in T_Sends :
        /\ s.dst = "DU" => Truthy(t_qcu.shared_secret)
        /\ s.dst = "CU" => Truthy(t_qdu.shared_secret)

\* C11: with a shared secret on both managers, the bytes sent for a packet
\* are the bytes that were read, and go to the opposite socket.
C11_PeerReceivesPlaintext ==
    (Truthy(t_qcu.shared_secret) /\ Truthy(t_qdu.shared_secret)) =>
        \A s \in T_Sends :
            /\ s.data = s.src_data
            /\ \E i \in DOMAIN t_trace.reads :
                  /\ t_trace.reads[i].data = s.src_data
                  /\ t_trace.reads[i].sock = Other(s.dst)

\* C19: once a read on a socket has returned b"", the loop makes no further
\* recv call on that socket.
C19_EmptyReadEndsReading ==
    \A i \in DOMAIN t_trace.recvs :
        t_trace.recvs[i].sock \notin t_trace.closed_before

----------------------------------------------------------------------------
(* Properties of protect_data (SpecCipher) *)

\* the secret the two managers held before the first call
CipherSecret == c_call1.before[1].shared_secret

\* C8: with a non-empty secret, protect_data applied to the result of
\* protect_data returns the input, whichever manager and direction label
\* each call used.
C8_ProtectIsInvolution ==
    (c_pc = "twice" /\ Truthy(CipherSecret)) =>
        /\ c_call2.ret.some
        /\ c_call2.ret.v = c_data

\* C8 witness: five bytes (more than one digest), the two calls made by
\* different managers with different labels, the ciphertext unlike the input
C8_Witness ==
    /\ c_pc = "twice"
    /\ Truthy(CipherSecret)
    /\ Len(c_data) = 5
    /\ c_call1.who # c_call2.who
    /\ c_call1.direction # c_call2.direction
    /\ c_call1.ret.v # c_data

\* a is a prefix of b
IsPrefix(a, b) == Len(a) <= Len(b) /\ SubSeq(b, 1, Len(a)) = a

\* the key stream a call used: its result XOR its input
UsedKeyStream(call) == XorZip(call.ret.v, call.input)

\* C30: protect_data is deterministic and history-free: a third call, by
\* either manager under any direction label, on the input of the first call
\* returns the bytes the first call returned; and of the key streams of two
\* calls the shorter is a prefix of the longer.
C30_ProtectIsHistoryFree ==
    (c_pc = "thrice" /\ Truthy(CipherSecret)) =>
        /\ c_call3.ret.some
        /\ Len(c_call3.ret.v) = Len(c_call3.input)
        /\ c_call3.input = c_data => c_call3.ret = c_call1.ret
        /\ \/ IsPrefix(UsedKeyStream(c_call1), UsedKeyStream(c_call3))
           \/ IsPrefix(UsedKeyStream(c_call3), UsedKeyStream(c_call1))

\* C30 witness: the third call is made by the manager that made the first,
\* under another label, on the same five bytes, and returns the same bytes
C30_Witness ==
    /\ c_pc = "thrice"
    /\ Truthy(CipherSecret)
    /\ c_call3.who = c_call1.who
    /\ c_call3.direction # c_call1.direction
    /\ c_call3.input = c_data
    /\ Len(c_data) = 5
    /\ c_call3.ret = c_call1.ret
    /\ c_call1.ret.v # c_data

\* C30 witness for the prefix: a call on two bytes after a call on five
C30_PrefixReached ==
    /\ c_pc = "thrice"
    /\ Len(c_data) = 5
    /\ Len(c_call3.input) = 2
    /\ UsedKeyStream(c_call3) # UsedKeyStream(c_call1)

\* C9: with the secret unset or empty, protect_data returns None, raises
\* nothing and leaves the manager as it was.
C9_NoSecretNoResult ==
    (c_pc = "once" /\ ~Truthy(CipherSecret)) =>
        /\ c_call1.ret = None
        /\ ~c_call1.raised
        /\ c_mgr = c_call1.before

\* C9 witness: a call on non-empty data by a manager whose secret is b""
C9_Witness ==
    /\ c_pc = "once"
    /\ CipherSecret = Some(<<>>)
    /\ Len(c_data) = 3
    /\ c_call1.ret = None

----------------------------------------------------------------------------
(* Properties of netsquid_tunnel.py (SpecNetsquid) *)

N_Log == {n_log[i] : i \in DOMAIN n_log}

----------------------------------------------------------------------------
(* Properties of sequence_tunnel.py (SpecSequence) *)

\* nothing is pending and no thread is inside timeline.run
S_Quiescent ==
    /\ s_heap = <<>>
    /\ ~InRun(s_pc["H"])
    /\ ~InRun(s_pc["S"])

\* the sends of the bytes of packet id to the socket opposite to its source
S_SendsOf(id) ==
    {i \in DOMAIN s_sends :
        /\ s_sends[i].data = s_packets[id].data
        /\ s_sends[i].dst = Other(s_packets[id].src)}

\* C14: no send has failed; then no packet's bytes are sent twice, and once
\* nothing is pending every packet read has been sent exactly once to the
\* opposite socket.
C14_EveryPacketSentOnce ==
    (\A i \in DOMAIN s_sends : s_sends[i].result = "ok") =>
        \A id \in DOMAIN s_packets :
            /\ Cardinality(S_SendsOf(id)) <= 1
            /\ S_Quiescent => Cardinality(S_SendsOf(id)) = 1

\* C17: the event queue is used by one activity at a time: the two threads
\* are never both inside timeline.run, and no event is scheduled while the
\* other thread is inside timeline.run.
C17_QueueAccessIsExclusive ==
    /\ ~(InRun(s_pc["H"]) /\ InRun(s_pc["S"]))
    /\ ~s_raced

\* the simulation times at which the events fired never decrease
O_FiredInTimeOrder ==
    \A i, j \in DOMAIN o_fired :
        i < j => o_fired[i].time <= o_fired[j].time

\* events of equal fire time fired in the order of their scheduling
O_TiesFiredInEnqueueOrder ==
    \A i, j \in DOMAIN o_fired :
        (i < j /\ o_fired[i].time = o_fired[j].time)
            => o_fired[i].gid < o_fired[j].gid

\* the packets written to one socket were written in the order of reading
O_ForwardedInReadOrder ==
    \A i, j \in DOMAIN o_sends :
        (i < j /\ o_sends[i].to = o_sends[j].to)
            => o_sends[i].gid < o_sends[j].gid

\* C16: in sequence_tunnel_oran.py the delivery events fire in
\* non-decreasing order of fire time, events of equal fire time fire in the
\* order in which they were scheduled, and so the packets of one direction
\* are forwarded to the destination socket in the order they were read.
C16_EventsFireInTimeThenEnqueueOrder ==
    /\ O_FiredInTimeOrder
    /\ O_TiesFiredInEnqueueOrder
    /\ O_ForwardedInReadOrder

----------------------------------------------------------------------------
(* Properties of sctp_tunnel.py (SpecSctp) *)

\* C23: after one endpoint has failed, the loop that reads the other
\* endpoint, which has not failed, is still running.
C23_SurvivorStillServed ==
    \A t \in {"DU", "CU"} :
        (Other(t) \in k_failed /\ t \notin k_failed) => k_pc[t] # "done"

----------------------------------------------------------------------------
(* Properties of mytunnel2.py and mytunnel2_testtunnel.py (SpecQunet) *)

\* C25: every payload is written to the socket opposite to the one it was
\* read from, never to the socket it was read from.
C25_DestinationIsOppositeEndpoint ==
    \A i \in DOMAIN q_writes :
        /\ q_writes[i].sock = Other(q_writes[i].from)
        /\ q_writes[i].data = q_reads[q_writes[i].id].data

----------------------------------------------------------------------------
(* Properties of setup_keypair and establish_shared_secret (SpecKem) *)

\* the last call of establish_shared_secret could not derive a secret: the
\* argument of the manager's role was missing, or the KEM operation raised
E_CannotDerive ==
    LET m == e_call.before
    IN \/ m.is_server /\ ~Truthy(e_call.client_public_key)
       \/ ~m.is_server /\ ~Truthy(e_call.server_ciphertext)
       \/ e_call.kem_raised

\* C38: establish_shared_secret returns None and leaves the manager as it
\* was whenever it cannot derive a secret, and setup_keypair on the server
\* role returns None and changes nothing.
C38_FailedEstablishChangesNothing ==
    /\ (e_call.op = "establish_shared_secret" /\ E_CannotDerive) =>
          /\ e_call.ret = None
          /\ e_mgr = e_call.before
    /\ (e_call.op = "setup_keypair" /\ e_call.before.is_server) =>
          /\ e_call.ret = None
          /\ ~e_call.raised
          /\ e_mgr = e_call.before

\* C38 witness: an initiator that holds a secret from an earlier call is
\* given a ciphertext, decap_secret raises, and the secret is still held
C38_Witness ==
    /\ e_call.op = "establish_shared_secret"
    /\ ~e_call.before.is_server
    /\ e_call.before.kem_instance
    /\ e_call.before.shared_secret.some
    /\ Truthy(e_call.server_ciphertext)
    /\ e_call.kem_raised
    /\ e_call.ret = None
    /\ e_mgr.shared_secret = e_call.before.shared_secret

----------------------------------------------------------------------------
(* Properties of sctp_tunnel.py (SpecSctp), continued *)

\* the steps of one loop iteration on a non-empty read
K_Cycle == <<"recv", "sleep", "send">>

\* number of entries e in the first n entries of log
RECURSIVE K_Count(_, _, _)
K_Count(log, n, e) ==
    IF n = 0 THEN 0
    ELSE K_Count(log, n - 1, e) + (IF log[n] = e THEN 1 ELSE 0)

\* C33: in each direction the k-th send carries the bytes of the k-th
\* non-empty read, each send comes after the delay that follows its read,
\* and no read starts before the packet read before it has been sent.
C33_ReadDelaySendInOrder ==
    \A t \in {"DU", "CU"} :
       /\ \A i \in 1..Len(k_log[t]) : k_log[t][i] = K_Cycle[((i - 1) % 3) + 1]
       /\ K_Count(k_log[t], Len(k_log[t]), "recv") = Len(k_reads[t])
       /\ K_Count(k_log[t], Len(k_log[t]), "send") = Len(k_sends[t])
       /\ \A k \in 1..Len(k_sends[t]) : k_sends[t][k].data = k_reads[t][k]

\* C33 witness: one thread has read, delayed and sent two different packets
C33_Witness ==
    \E t \in {"DU", "CU"} :
       /\ Len(k_sends[t]) = 2
       /\ k_sends[t][1].data # k_sends[t][2].data
       /\ k_sends[t][2].data = k_reads[t][2]
       /\ Len(k_log[t]) = 6

----------------------------------------------------------------------------
(* Properties of sequence_tunnel_oran.py (SpecOran), continued *)

\* the events that are scheduled and have not fired
O_Pending == {o_heap[i] : i \in DOMAIN o_heap}

\* C32: a delivery event whose send raised has left the simulation thread in
\* its loop, the packet of that event is neither pending again nor sent a
\* second time, and every event that fired has been handed to send once.
C32_FailedSendIsDroppedAndLoopGoesOn ==
    /\ o_pc["S"] \in {"check", "run", "fire"}
    /\ Len(o_sends) = Len(o_fired) - (IF o_pc["S"] = "fire" THEN 1 ELSE 0)
    /\ \A i \in DOMAIN o_sends :
          /\ o_sends[i].gid = o_fired[i].gid
          /\ o_sends[i].result = "raise" =>
                /\ \A e \in O_Pending : e.gid # o_sends[i].gid
                /\ \A j \in DOMAIN o_sends : j # i => o_sends[j].gid # o_sends[i].gid

\* C32 witness: the send of one event raised, and an event scheduled for the
\* same socket fired after it and was sent
C32_Witness ==
    \E i, j \in DOMAIN o_sends :
       /\ i < j
       /\ o_sends[i].result = "raise"
       /\ o_sends[j].result = "ok"
       /\ o_sends[j].to = o_sends[i].to

\* the delivery events for node that are in the timeline or being fired
O_PendingFor(node) ==
    Cardinality({i \in DOMAIN o_heap : o_heap[i].node = node})
        + (IF o_pc["S"] = "fire" /\ o_cur.node = node THEN 1 ELSE 0)

\* C37: each node's packets_received is at most its partner's packets_sent,
\* and the difference is the number of delivery events for that node that
\* are still pending.
C37_ReceivedIsSentMinusPending ==
    \A node \in {"QCU", "QDU"} :
       /\ o_node[node].packets_received <= o_node[O_Partner(node)].packets_sent
       /\ o_node[O_Partner(node)].packets_sent - o_node[node].packets_received
             = O_PendingFor(node)

----------------------------------------------------------------------------
(* Properties of netsquid_tunnel.py, continued *)

\* the messages the processing events put on the tunnel
N_Transmitted == {e \in N_Log : e.ev \in {"tx_qcu", "tx_qdu"}}

N_Steps(dst) ==
    IF dst = "DU" THEN <<"tx_qcu", "at_qdu", "send_du">>
    ELSE <<"tx_qdu", "at_qcu", "send_cu">>

\* C35: a packet read from the CU socket is sent to the DU socket only
\* after the QCU processing event fired, the channel delivered the message
\* to QDU and the QDU forwarding event fired, in this order, and the same
\* from DU to CU; nothing is written to a socket by the poll handler.
C35_SendOnlyAfterProcessDeliverForward ==
    \A dst \in {"DU", "CU"} :
       \A k \in DOMAIN n_log :
          n_log[k].ev = N_Steps(dst)[3] =>
             /\ n_packets[n_log[k].gid].src = Other(dst)
             /\ \E i, j \in 1..(k - 1) :
                   /\ i < j
                   /\ n_log[i].ev = N_Steps(dst)[1]
                   /\ n_log[j].ev = N_Steps(dst)[2]
                   /\ n_log[i].gid = n_log[k].gid
                   /\ n_log[j].gid = n_log[k].gid
                   /\ n_packets[n_log[k].gid].time < n_log[i].time
                   /\ n_log[i].time < n_log[j].time
                   /\ n_log[j].time < n_log[k].time

\* C35 witness: a packet of the CU has been sent to the DU socket and a
\* packet of the DU to the CU socket
C35_Witness ==
    /\ \E k \in DOMAIN n_log :
          /\ n_log[k].ev = "send_du" /\ n_log[k].result = "ok"
          /\ n_packets[n_log[k].gid].src = "CU"
    /\ \E k \in DOMAIN n_log :
          /\ n_log[k].ev = "send_cu" /\ n_log[k].result = "ok"
          /\ n_packets[n_log[k].gid].src = "DU"

----------------------------------------------------------------------------
(* Properties of sequence_tunnel.py (SpecSequence), continued *)

\* no direction has carried more than one packet
S_OnePacketPerDirection ==
    \A i, j \in DOMAIN s_packets :
        s_packets[i].src = s_packets[j].src => i = j

\* the packet is in flight: its delivery event is in the timeline or a
\* thread is delivering it
S_InFlight(id) ==
    \/ \E i \in DOMAIN s_heap : s_heap[i].gid = id
    \/ \E t \in Threads : s_pc[t] \in {"sleep", "clear"} /\ s_cur[t].gid = id

\* C31: with at most one packet per direction, a packet from the CU and a
\* packet from the DU are each handed to send once, on the socket opposite
\* to the one they were read from and with their own bytes, whatever the
\* order in which the two threads read and fire the delivery events.
C31_DirectionsAreIndependent ==
    S_OnePacketPerDirection =>
       /\ \A i \in DOMAIN s_sends :
             /\ s_sends[i].gid \in DOMAIN s_packets
             /\ s_sends[i].dst = Other(s_packets[s_sends[i].gid].src)
             /\ s_sends[i].data = s_packets[s_sends[i].gid].data
       /\ \A id \in DOMAIN s_packets :
             /\ Cardinality(S_SendsOf(id)) <= 1
             /\ ~S_InFlight(id) => Cardinality(S_SendsOf(id)) = 1

\* C31 witness: a packet from the CU and a packet from the DU were in
\* flight together, the two threads delivered one each, and both were sent
C31_Witness ==
    /\ Len(s_packets) = 2
    /\ S_OnePacketPerDirection
    /\ Len(s_sends) = 2
    /\ s_sends[1].thread # s_sends[2].thread
    /\ \A i \in 1..2 : s_sends[i].result = "ok"
    /\ s_raced

\* the same in netsquid_tunnel.py (SpecNetsquid): with one packet from the
\* CU and one from the DU, every send carries the bytes of its packet to the
\* socket opposite to the packet's source, and no packet is sent twice
N_DirectionsAreIndependent ==
    (\A i, j \in DOMAIN n_packets :
        n_packets[i].src = n_packets[j].src => i = j) =>
       \A k \in DOMAIN n_log :
          n_log[k].ev \in {"send_du", "send_cu"} =>
             /\ n_log[k].data = Some(n_packets[n_log[k].gid].data)
             /\ (n_log[k].ev = "send_du") = (n_packets[n_log[k].gid].src = "CU")
             /\ \A m \in DOMAIN n_log :
                   (n_log[m].ev = n_log[k].ev /\ n_log[m].gid = n_log[k].gid)
                       => m = k

====
